---- MODULE Spec2Model ----
(***************************************************************************)
(* Room coordination server of webrtc-node (server.js): the RoomState      *)
(* object (users, the two index pools, transports, producers, screen       *)
(* producers), the socket.io handlers (connection, stop-screen-share,      *)
(* disconnect) and the HTTP handlers that mutate RoomState                 *)
(* (create-transport, produce).  Each handler is one action, except that   *)
(* an HTTP handler is cut at its await on the media engine: the part       *)
(* before the await and the continuation after it are separate actions,    *)
(* because other handlers run in between.                                  *)
(*                                                                         *)
(* Browser client of webrtc-node (public/client.js): one VideoConference   *)
(* object, its socket listeners, the buffering of creation events until    *)
(* the device is loaded, consumeProducer and the removal of users and      *)
(* presentations, and the video switcher.  An async function is cut at     *)
(* each of its awaits; what runs between two awaits is one action.         *)
(***************************************************************************)
EXTENDS Integers, Sequences, FiniteSets, TLC

\* ---------------------------------------------------------------- bounds
MaxIds == 7   \* socket connections opened plus transports and producers asked for

MaxEvents == 3   \* socket messages the client handles

\* ------------------------------------------------------ program constants
MAX_USERS         == 3
MAX_SCREEN_SHARES == 2
NULL              == -1   \* JavaScript null / undefined index

Sockets      == 1..MaxIds
TransportIds == 1..MaxIds
ProducerIds  == 1..MaxIds
Directions   == {"send", "recv"}
Kinds        == {"video"}
Sources      == {"camera", "screen"}
Names        == {"User", "Ann"}   \* what a client may send with set-name

VARIABLES
    connState,                     \* socket -> "new" | "connected" | "rejected" | "disconnected"
    users,                         \* RoomState.users: socketId -> user state
    availableIndexes,              \* RoomState.availableIndexes
    transports,                    \* RoomState.transports: transportId -> data
    producers,                     \* RoomState.producers: producerId -> data
    screenProducers,               \* RoomState.screenProducers (its key set)
    availablePresentationIndexes,  \* RoomState.availablePresentationIndexes
    pending,                       \* HTTP handlers suspended at an await
    nextTransportId,               \* next id the media engine gives a transport
    nextProducerId,                \* next id the media engine gives a producer
    emitted,                       \* what the last handler emitted, in order
    resp,                          \* the error the last handler answered, if any
    firstMsg,                      \* socket -> type of the first message sent to it
    updates,                       \* set-name and toggle events handled so far
    inbox,                         \* roster messages sent to the client, not yet handled
    \* ---- the client (client.js, class VideoConference)
    socketState,                   \* this.socket: "none" | "open" | "closed"
    startPc,                       \* where startConference stands
    deviceLoaded,                  \* this.device is a loaded Device (not null)
    deviceReady,                   \* this.deviceReady
    pendingProducers,              \* this.pendingProducers
    pendingPresentations,          \* this.pendingPresentations
    drain,                         \* where processPendingProducers stands
    calls,                         \* consumeProducer calls suspended at an await
    consumers,                     \* this.consumers: producerId -> consumer data
    consumerTransports,            \* this.consumerTransports (its key set)
    presentations,                 \* this.presentations: producerId -> record
    userStates,                    \* this.userStates: socketId -> user
    elements,                      \* the .video-wrapper elements: id -> label, video
    peersGrid,                     \* children of #peersContainer, in order
    presGrid,                      \* children of #presentationsContainer, in order
    swapSource,                    \* this.swapSource
    swapTarget,                    \* this.swapTarget
    isSwapMode,                    \* this.isSwapMode
    received,                      \* socket messages handled so far
    delivered,                     \* creation descriptors received, in order
    dispatched,                    \* calls of consumeProducer, in order
    visuals,                       \* swap classes and styles of the elements, the banner
    lastHandler,                   \* the handler that ran last, and on what
    isSharingScreen,               \* this.isSharingScreen
    screenTracks,                  \* tracks produceScreenTracks has yet to produce
    ownProducers,                  \* this.producers: key -> producer id
    capturing,                     \* toggleScreenShare awaits getDisplayMedia
    closedProducers                \* producers the server told this socket are gone

roomVars == <<users, availableIndexes, transports, producers, screenProducers,
              availablePresentationIndexes>>
serverVars == <<connState, users, availableIndexes, transports, producers,
                screenProducers, availablePresentationIndexes, pending,
                nextTransportId, nextProducerId, emitted, resp, firstMsg, updates,
                inbox>>
clientVars == <<socketState, startPc, deviceLoaded, deviceReady, pendingProducers,
                pendingPresentations, drain, calls, consumers, consumerTransports,
                presentations, userStates, elements, peersGrid, presGrid,
                swapSource, swapTarget, isSwapMode, received, delivered,
                dispatched, visuals, lastHandler, closedProducers>>
shareVars == <<isSharingScreen, screenTracks, ownProducers, capturing>>
sideVars == <<updates, inbox, clientVars, shareVars>>
offClient == <<serverVars, shareVars, closedProducers>>
vars == <<connState, users, availableIndexes, transports, producers,
          screenProducers, availablePresentationIndexes, pending,
          nextTransportId, nextProducerId, emitted, resp, firstMsg, updates,
          inbox, clientVars, shareVars>>

\* ------------------------------------------------------------- helpers
Range(seq) == {seq[i] : i \in 1..Len(seq)}

Min(S) == CHOOSE x \in S : \A y \in S : x <= y

\* The elements of a set of integers as an ascending sequence: the order in
\* which Map.forEach visits keys that were inserted in increasing id order.
RECURSIVE InOrder(_)
InOrder(S) == IF S = {} THEN <<>> ELSE <<Min(S)>> \o InOrder(S \ {Min(S)})

\* The map m without key k (Map.delete).
MapDelete(m, k) == [x \in (DOMAIN m) \ {k} |-> m[x]]

\* The map m with key k set to v (Map.set).
MapSet(m, k, v) == [x \in (DOMAIN m) \cup {k} |-> IF x = k THEN v ELSE m[x]]

\* Array.prototype.sort((a, b) => a - b)
SortAscending(seq) == SortSeq(seq, LAMBDA a, b : a < b)

\* ----------------------------------------------------- RoomState helpers
isRoomFull == Cardinality(DOMAIN users) >= MAX_USERS

getScreenShareCount == Cardinality(screenProducers)

\* getNextUserIndex taking the largest free index instead of the smallest.
getNextUserIndexLast ==
    IF Len(availableIndexes) > 0
    THEN availableIndexes[Len(availableIndexes)] ELSE NULL

\* getNextUserIndex: the value returned, and the pool it leaves behind.
getNextUserIndex ==
    IF Len(availableIndexes) > 0 THEN Head(availableIndexes) ELSE NULL
afterGetNextUserIndex ==
    IF Len(availableIndexes) > 0 THEN Tail(availableIndexes) ELSE availableIndexes

\* releaseUserIndex without its sort: the index is pushed at the end.
releaseUserIndexUnsorted(pool, userIndex) ==
    IF userIndex # NULL /\ userIndex >= 0 /\ userIndex < MAX_USERS
    THEN Append(pool, userIndex)
    ELSE pool

releaseUserIndex(pool, userIndex) ==
    IF userIndex # NULL /\ userIndex >= 0 /\ userIndex < MAX_USERS
    THEN SortAscending(Append(pool, userIndex))
    ELSE pool

getNextPresentationIndex ==
    IF Len(availablePresentationIndexes) > 0
    THEN Head(availablePresentationIndexes) ELSE NULL
afterGetNextPresentationIndex ==
    IF Len(availablePresentationIndexes) > 0
    THEN Tail(availablePresentationIndexes) ELSE availablePresentationIndexes

releasePresentationIndex(pool, presentationIndex) ==
    IF presentationIndex # NULL /\ presentationIndex >= 0
       /\ presentationIndex < MAX_SCREEN_SHARES
    THEN SortAscending(Append(pool, presentationIndex))
    ELSE pool

\* getAllUsers, evaluated on the map us.
getAllUsers(us, excludeSocketId) ==
    {[socketId |-> s, name |-> us[s].name, userIndex |-> us[s].userIndex,
      videoEnabled |-> us[s].videoEnabled,
      audioEnabled |-> us[s].audioEnabled] :
        s \in (DOMAIN us) \ {excludeSocketId}}

\* getAllProducers, evaluated on the maps us and ps.
getAllProducers(us, ps) ==
    {[id |-> p, socketId |-> ps[p].socketId, kind |-> ps[p].kind,
      source |-> ps[p].source,
      peerName |-> IF ps[p].socketId \in DOMAIN us
                   THEN us[ps[p].socketId].name ELSE "Unknown",
      isScreen |-> ps[p].source = "screen",
      userIndex |-> IF ps[p].socketId \in DOMAIN us
                    THEN us[ps[p].socketId].userIndex ELSE 0,
      presentationIndex |-> ps[p].presentationIndex] : p \in DOMAIN ps}

roomStatus(us, sps) ==
    [type |-> "room-status", userCount |-> Cardinality(DOMAIN us),
     maxUsers |-> MAX_USERS, screenShareCount |-> Cardinality(sps)]

\* The screen producers of socketId in the directory ps.
ScreenProducersOf(ps, socketId) ==
    {p \in DOMAIN ps : ps[p].socketId = socketId /\ ps[p].source = "screen"}

ProducersOf(ps, socketId) == {p \in DOMAIN ps : ps[p].socketId = socketId}

TransportsOf(ts, socketId) == {t \in DOMAIN ts : ts[t].socketId = socketId}

\* The pool after the presentation index of each producer of ids (a sequence
\* of producer ids, in visiting order) was released, when it is not null.
RECURSIVE ReleaseEach(_, _)
ReleaseEach(pool, ids) ==
    IF ids = <<>> THEN pool
    ELSE ReleaseEach(
            IF producers[Head(ids)].presentationIndex # NULL
            THEN releasePresentationIndex(pool, producers[Head(ids)].presentationIndex)
            ELSE pool,
            Tail(ids))

\* The type of the first message socket s is sent: what it had, or the first
\* entry of the emissions em that is addressed to it.
RECURSIVE FirstTo(_, _)
FirstTo(em, s) ==
    IF em = <<>> THEN "none"
    ELSE IF s \in Head(em).to THEN Head(em).msg.type ELSE FirstTo(Tail(em), s)

Deliver(em) ==
    [s \in Sockets |-> IF firstMsg[s] # "none" THEN firstMsg[s] ELSE FirstTo(em, s)]

\* The error a handler answers: op is the handler, at is "request" (before its
\* await), "resume" (after it) or "event" (a socket handler), status the HTTP
\* status (403 for the room-full event).  NoError when it answers none.
Response(op, at, status) == [op |-> op, at |-> at, status |-> status]
NoError == Response("none", "-", 0)

\* ------------------------------------------------ the client's world
\* The client is the browser of socket ME; the others in the room are Peers.
\* RemoteProducers are the producers the server may describe to it, each id
\* with one owner and one source: a camera and a screen share of peer 2, the
\* client's own screen share, and the client's own camera.  Producer 5 is the
\* camera of a second peer, socket 3, in a room that is full.  Producer 6 is
\* a later screen share of the client, started when presentation slot 0 is
\* free again.
ME              == 1
Peers           == {2}
RemoteProducers == (1..4) \cup {6}

Owner(p) == IF p \in {1, 2} THEN 2 ELSE IF p = 5 THEN 3 ELSE ME

IsScreen(p) == p \in {2, 3, 6}

\* The slot the server gave socket s, and the presentation slot of producer p.
UserIndexOf(s) == s - 1

PresentationIndexOf(p) == IF p \in {2, 6} THEN 0 ELSE IF p = 3 THEN 1 ELSE NULL

\* The descriptor of producer p, as init, new-producer and new-presentation
\* carry it.
Descriptor(p) ==
    [id |-> p, socketId |-> Owner(p), kind |-> "video",
     userIndex |-> UserIndexOf(Owner(p)), isScreen |-> IsScreen(p),
     presentationIndex |-> PresentationIndexOf(p)]

\* Element ids and labels of the video grid.
LocalElement          == [type |-> "local", n |-> 0]
UserElement(s)        == [type |-> "user", n |-> s]
PresentationElement(p) == [type |-> "presentation", n |-> p]
ScrLabel(i)           == [t |-> "scr", n |-> i]
PrLabel(i)            == [t |-> "pr", n |-> i]

\* No element: what getElementById and findVideoContainerByScreen answer
\* when the document has none.
NoElement == [type |-> "none", n |-> 0]

\* null, for this.swapSource and this.swapTarget.  A selection is the id and
\* the label of a switcher item; marked tells whether highlightSwapSource
\* found the container of that label and gave it the class swap-source.
NoSelection == [id |-> NoElement, screen |-> [t |-> "none", n |-> 0], marked |-> FALSE]

\* The swap visuals: styled holds <<element, style>> for the classes
\* swap-source and swap-target and for the inline styles cursor (default or
\* pointer) and opacity; banner is #swapInstructions shown; body is the class
\* swap-mode of the body.
NoVisuals == [styled |-> {}, banner |-> FALSE, body |-> FALSE]

\* The visuals v once only the elements doc are in the document.
InDocument(v, doc) == [v EXCEPT !.styled = {x \in @ : x[1] \in doc}]

\* clearSwapHighlights: every .video-wrapper of the document doc loses its
\* swap classes, its cursor and its opacity.
clearSwapHighlights(v, doc) == [v EXCEPT !.styled = {x \in @ : x[1] \notin doc}]

\* A reset of the visuals that leaves the banner and the body class.
ClearedHighlightsOnly(v, doc) == clearSwapHighlights(v, doc)

\* clearSwapHighlights, hideSwapInstructions and disableSwapModeVisuals, as
\* cancelSwap, completeSwap and handleDisconnect call them.
ClearedVisuals(v, doc) ==
    [clearSwapHighlights(v, doc) EXCEPT !.banner = FALSE, !.body = FALSE]

\* The handler that ran last: its name, the element, user, producer or call it
\* was about, and the id this.swapSource held when it began.
Handler(op, type, n, source) ==
    [op |-> op, arg |-> [type |-> type, n |-> n], source |-> source]

\* processPendingProducers is not running.
NoDrain == [phase |-> "none", idx |-> 0, live |-> TRUE, arr |-> <<>>]

\* The VideoConference object after its constructor, and the page as served.
ClientInit ==
    /\ socketState = "none"
    /\ startPc = "idle"
    /\ deviceLoaded = FALSE
    /\ deviceReady = FALSE
    /\ pendingProducers = <<>>
    /\ pendingPresentations = <<>>
    /\ drain = NoDrain
    /\ calls = {}
    /\ consumers = <<>>
    /\ consumerTransports = {}
    /\ presentations = <<>>
    /\ userStates = <<>>
    /\ elements = (LocalElement :> [label |-> ScrLabel(0), video |-> 0])
    /\ peersGrid = <<LocalElement>>
    /\ presGrid = <<>>
    /\ swapSource = NoSelection
    /\ swapTarget = NoSelection
    /\ isSwapMode = FALSE
    /\ visuals = NoVisuals
    /\ received = 0
    /\ delivered = <<>>
    /\ dispatched = <<>>
    /\ lastHandler = Handler("constructor", "none", 0, NoElement)
    /\ isSharingScreen = FALSE
    /\ screenTracks = <<>>
    /\ ownProducers = <<>>
    /\ capturing = FALSE
    /\ closedProducers = {}

\* ----------------------------------------------------------------- Init
RoomInit ==
    /\ connState = [s \in Sockets |-> "new"]
    /\ users = <<>>
    /\ availableIndexes = [i \in 1..MAX_USERS |-> i - 1]
    /\ transports = <<>>
    /\ producers = <<>>
    /\ screenProducers = {}
    /\ availablePresentationIndexes = [i \in 1..MAX_SCREEN_SHARES |-> i - 1]
    /\ pending = {}
    /\ nextTransportId = 1
    /\ nextProducerId = 1
    /\ emitted = <<>>
    /\ resp = NoError
    /\ firstMsg = [s \in Sockets |-> "none"]
    /\ updates = 0
    /\ inbox = <<>>

Init == RoomInit /\ ClientInit

PendingOf(op) == {p \in pending : p.op = op}

Suspended(op, socketId, direction, transportId, kind, source) ==
    [op |-> op, socketId |-> socketId, direction |-> direction,
     transportId |-> transportId, kind |-> kind, source |-> source]

\* The identifiers in use: the sockets opened, and the transports and
\* producers the media engine created or has yet to create.
IdsUsed ==
    Cardinality({s \in Sockets : connState[s] # "new"})
    + (nextTransportId - 1) + (nextProducerId - 1) + Cardinality(pending)
    + updates

\* ------------------------------------------------- io.on("connection")
\* Socket ids are fresh per connection: the next connection is the lowest
\* socket not opened yet.
RejectConnection(s) ==
    /\ connState' = [connState EXCEPT ![s] = "rejected"]
    /\ emitted' = <<[to |-> {s}, msg |-> [type |-> "room-full"]]>>
    /\ resp' = Response("connection", "event", 403)
    /\ firstMsg' = Deliver(emitted')
    /\ UNCHANGED <<roomVars, pending, nextTransportId, nextProducerId>>

\* What the connection handler emits for an admitted socket, us being the
\* roster with the new user in it: the snapshot to the socket, the join to the
\* others, the room status to all.
\* InitSnapshot with the roster not filtered: the new user is in it.
InitSnapshotWithSelf(s, userIndex, us) ==
    [to |-> {s},
     msg |-> [type |-> "init", userIndex |-> userIndex,
              currentUsers |-> getAllUsers(us, NULL),
              currentProducers |-> getAllProducers(us, producers)]]

InitSnapshot(s, userIndex, us) ==
    [to |-> {s},
     msg |-> [type |-> "init", userIndex |-> userIndex,
              currentUsers |-> getAllUsers(us, s),
              currentProducers |-> getAllProducers(us, producers)]]

UserJoined(s, userIndex, us) ==
    [to |-> (DOMAIN us) \ {s},
     msg |-> [type |-> "user-joined", socketId |-> s, name |-> "Anonymous",
              userIndex |-> userIndex, videoEnabled |-> TRUE,
              audioEnabled |-> TRUE]]

\* AdmitConnection with the room status sent before the snapshot.
AdmitConnectionStatusFirst(s, userIndex) ==
    /\ connState' = [connState EXCEPT ![s] = "connected"]
    /\ availableIndexes' = afterGetNextUserIndex
    /\ users' = MapSet(users, s, [name |-> "Anonymous", videoEnabled |-> TRUE,
                                  audioEnabled |-> TRUE, userIndex |-> userIndex])
    /\ emitted' = << [to |-> DOMAIN users', msg |-> roomStatus(users', screenProducers)],
                     InitSnapshot(s, userIndex, users'),
                     UserJoined(s, userIndex, users') >>
    /\ resp' = NoError
    /\ firstMsg' = Deliver(emitted')
    /\ UNCHANGED <<transports, producers, screenProducers,
                   availablePresentationIndexes, pending,
                   nextTransportId, nextProducerId>>

AdmitConnection(s, userIndex) ==
    /\ connState' = [connState EXCEPT ![s] = "connected"]
    /\ availableIndexes' = afterGetNextUserIndex
    /\ users' = MapSet(users, s, [name |-> "Anonymous", videoEnabled |-> TRUE,
                                  audioEnabled |-> TRUE, userIndex |-> userIndex])
    /\ emitted' = << InitSnapshot(s, userIndex, users'),
                     UserJoined(s, userIndex, users'),
                     [to |-> DOMAIN users', msg |-> roomStatus(users', screenProducers)] >>
    /\ resp' = NoError
    /\ firstMsg' = Deliver(emitted')
    /\ UNCHANGED <<transports, producers, screenProducers,
                   availablePresentationIndexes, pending,
                   nextTransportId, nextProducerId>>

\* The connection handler without its capacity checks.
ConnectionUnchecked(s) ==
    /\ connState[s] = "new"
    /\ \A r \in Sockets : r < s => connState[r] # "new"
    /\ IdsUsed < MaxIds
    /\ AdmitConnection(s, getNextUserIndex)

Connection(s) ==
    /\ connState[s] = "new"
    /\ \A r \in Sockets : r < s => connState[r] # "new"
    /\ IdsUsed < MaxIds
    /\ IF isRoomFull THEN RejectConnection(s)
       ELSE IF getNextUserIndex = NULL THEN RejectConnection(s)
       ELSE AdmitConnection(s, getNextUserIndex)

\* --------------------------------------------- POST /create-transport
\* The producers of the directory that the client of socket s consumes: all
\* but its own camera and microphone (client.js, consumeProducer).
Consumable(s) ==
    {p \in DOMAIN producers :
        producers[p].socketId # s \/ producers[p].source = "screen"}

\* The transports of a direction that socket s has, or is waiting for.
TransportCount(s, direction) ==
    Cardinality({t \in DOMAIN transports :
                    transports[t].socketId = s /\ transports[t].direction = direction})
    + Cardinality({p \in PendingOf("create-transport") :
                    p.socketId = s /\ p.direction = direction})

\* What the client of an admitted socket sends: one request for its send
\* transport (client.js, createProducerTransport), and one request for a
\* receive transport per producer it consumes (client.js, consumeProducer).
\* A request may reach the server after the socket has disconnected.
ClientAsks(socketId, direction) ==
    /\ connState[socketId] \in {"connected", "disconnected"}
    /\ IF direction = "send"
       THEN TransportCount(socketId, "send") = 0
       ELSE TransportCount(socketId, "recv") < Cardinality(Consumable(socketId))

\* Up to the await on router.createWebRtcTransport.
CreateTransport(socketId, direction) ==
    /\ ClientAsks(socketId, direction)
    /\ IdsUsed < MaxIds
    /\ IF direction = "send" /\ socketId \notin DOMAIN users /\ isRoomFull
       THEN /\ resp' = Response("create-transport", "request", 403)
            /\ UNCHANGED pending
       ELSE /\ pending' = pending \cup
                  {Suspended("create-transport", socketId, direction, 0, "-", "-")}
            /\ resp' = NoError
    /\ emitted' = <<>>
    /\ UNCHANGED <<connState, roomVars, nextTransportId, nextProducerId, firstMsg>>

\* The continuation after the await: the transport is recorded.
CreateTransportResume(p) ==
    /\ p \in PendingOf("create-transport")
    /\ transports' = MapSet(transports, nextTransportId,
                            [socketId |-> p.socketId, direction |-> p.direction])
    /\ nextTransportId' = nextTransportId + 1
    /\ pending' = pending \ {p}
    /\ resp' = NoError
    /\ emitted' = <<>>
    /\ UNCHANGED <<connState, users, availableIndexes, producers, screenProducers,
                   availablePresentationIndexes, nextProducerId, firstMsg>>

\* ------------------------------------------------------- POST /produce
\* Up to the await on transport.produce.  The client names its send transport
\* and its own socket id, and awaits each produce before the next (client.js,
\* the 'produce' handler, produceCameraTracks, produceScreenTracks); the
\* request may reach the server after the transport was closed.
Produce(transportId, kind, source) ==
    /\ transportId < nextTransportId
    /\ IdsUsed < MaxIds
    /\ IF transportId \notin DOMAIN transports
       THEN /\ resp' = Response("produce", "request", 404)
            /\ UNCHANGED pending
       ELSE /\ transports[transportId].direction = "send"
            /\ \A p \in PendingOf("produce") :
                  p.socketId # transports[transportId].socketId
            /\ IF source = "screen" /\ getScreenShareCount >= MAX_SCREEN_SHARES
               THEN /\ resp' = Response("produce", "request", 403)
                    /\ UNCHANGED pending
               ELSE /\ pending' = pending \cup
                          {Suspended("produce", transports[transportId].socketId,
                                     "send", transportId, kind, source)}
                    /\ resp' = NoError
    /\ emitted' = <<>>
    /\ UNCHANGED <<connState, roomVars, nextTransportId, nextProducerId,
                   firstMsg>>

\* RegisterScreenProducer without the entry in the screen-producer set.
RegisterScreenProducerUncounted(p, id) ==
         /\ availablePresentationIndexes' = afterGetNextPresentationIndex
         /\ screenProducers' = screenProducers
         /\ producers' = MapSet(producers, id,
                [socketId |-> p.socketId, kind |-> p.kind, source |-> "screen",
                 presentationIndex |-> getNextPresentationIndex])
         /\ emitted' =
              << [to |-> DOMAIN users,
                  msg |-> [type |-> "new-presentation", id |-> id,
                           socketId |-> p.socketId, kind |-> p.kind,
                           peerName |-> IF p.socketId \in DOMAIN users
                                        THEN users[p.socketId].name ELSE "Unknown",
                           presentationIndex |-> getNextPresentationIndex]],
                 [to |-> DOMAIN users, msg |-> roomStatus(users, screenProducers')] >>
         /\ resp' = NoError

\* The screen producer id of the suspended request p is recorded with the
\* presentation index taken from the pool, and announced.
RegisterScreenProducer(p, id) ==
         /\ availablePresentationIndexes' = afterGetNextPresentationIndex
         /\ screenProducers' = screenProducers \cup {id}
         /\ producers' = MapSet(producers, id,
                [socketId |-> p.socketId, kind |-> p.kind, source |-> "screen",
                 presentationIndex |-> getNextPresentationIndex])
         /\ emitted' =
              << [to |-> DOMAIN users,
                  msg |-> [type |-> "new-presentation", id |-> id,
                           socketId |-> p.socketId, kind |-> p.kind,
                           peerName |-> IF p.socketId \in DOMAIN users
                                        THEN users[p.socketId].name ELSE "Unknown",
                           presentationIndex |-> getNextPresentationIndex]],
                 [to |-> DOMAIN users, msg |-> roomStatus(users, screenProducers')] >>
         /\ resp' = NoError

\* ProduceResumeScreen without the check that an index was available.
ProduceResumeScreenUnchecked(p, id) == RegisterScreenProducer(p, id)

\* ProduceResumeScreen with the screen-producer set updated before the check.
ProduceResumeScreenEarlySet(p, id) ==
    IF getNextPresentationIndex = NULL
    THEN /\ resp' = Response("produce", "resume", 403)
         /\ emitted' = <<>>
         /\ screenProducers' = screenProducers \cup {id}
         /\ UNCHANGED <<producers, availablePresentationIndexes>>
    ELSE RegisterScreenProducer(p, id)

\* The continuation for source = screen: take a presentation index, or fail.
ProduceResumeScreen(p, id) ==
    IF getNextPresentationIndex = NULL
    THEN /\ resp' = Response("produce", "resume", 403)
         /\ emitted' = <<>>
         /\ UNCHANGED <<producers, screenProducers, availablePresentationIndexes>>
    ELSE RegisterScreenProducer(p, id)

\* ProduceResumeCamera announcing to every socket, the owner included.
ProduceResumeCameraToAll(p, id) ==
    /\ producers' = MapSet(producers, id,
            [socketId |-> p.socketId, kind |-> p.kind, source |-> p.source,
             presentationIndex |-> NULL])
    /\ emitted' =
         << [to |-> DOMAIN users,
             msg |-> [type |-> "new-producer", id |-> id, socketId |-> p.socketId,
                      kind |-> p.kind, source |-> p.source,
                      peerName |-> IF p.socketId \in DOMAIN users
                                   THEN users[p.socketId].name ELSE "Unknown",
                      userIndex |-> IF p.socketId \in DOMAIN users
                                    THEN users[p.socketId].userIndex ELSE 0]] >>
    /\ resp' = NoError
    /\ UNCHANGED <<screenProducers, availablePresentationIndexes>>

\* The continuation for a camera / microphone producer.
ProduceResumeCamera(p, id) ==
    /\ producers' = MapSet(producers, id,
            [socketId |-> p.socketId, kind |-> p.kind, source |-> p.source,
             presentationIndex |-> NULL])
    /\ emitted' =
         << [to |-> (DOMAIN users) \ {p.socketId},
             msg |-> [type |-> "new-producer", id |-> id, socketId |-> p.socketId,
                      kind |-> p.kind, source |-> p.source,
                      peerName |-> IF p.socketId \in DOMAIN users
                                   THEN users[p.socketId].name ELSE "Unknown",
                      userIndex |-> IF p.socketId \in DOMAIN users
                                    THEN users[p.socketId].userIndex ELSE 0]] >>
    /\ resp' = NoError
    /\ UNCHANGED <<screenProducers, availablePresentationIndexes>>

\* The continuation after the await: the media engine created producer
\* nextProducerId.
ProduceResume(p) ==
    /\ p \in PendingOf("produce")
    /\ nextProducerId' = nextProducerId + 1
    /\ pending' = pending \ {p}
    /\ IF p.source = "screen"
       THEN ProduceResumeScreen(p, nextProducerId)
       ELSE ProduceResumeCamera(p, nextProducerId)
    /\ firstMsg' = Deliver(emitted')
    /\ UNCHANGED <<connState, users, availableIndexes, transports,
                   nextTransportId>>

\* The awaited media-engine call rejects: the catch block answers 500.
EngineFailure(p) ==
    /\ p \in pending
    /\ pending' = pending \ {p}
    /\ resp' = Response(p.op, "resume", 500)
    /\ emitted' = <<>>
    /\ UNCHANGED <<connState, roomVars, nextTransportId, nextProducerId,
                   firstMsg>>

\* ------------------------------------------ RoomState.removeUserScreenShares
\* removeUserScreenShares without the release of the presentation indexes.
removeUserScreenSharesKeepsSlots(socketId) ==
    LET removed == InOrder(ScreenProducersOf(producers, socketId)) IN
    [removedProducers |-> removed,
     producers |-> [x \in (DOMAIN producers) \ Range(removed) |-> producers[x]],
     screenProducers |-> screenProducers \ Range(removed),
     availablePresentationIndexes |-> availablePresentationIndexes]

\* removeUserScreenShares without the test of the source: every producer of
\* the socket is removed.
removeUserScreenSharesAnySource(socketId) ==
    LET removed == InOrder(ProducersOf(producers, socketId)) IN
    [removedProducers |-> removed,
     producers |-> [x \in (DOMAIN producers) \ Range(removed) |-> producers[x]],
     screenProducers |-> screenProducers \ Range(removed),
     availablePresentationIndexes |->
         ReleaseEach(availablePresentationIndexes, removed)]

removeUserScreenShares(socketId) ==
    LET removed == InOrder(ScreenProducersOf(producers, socketId)) IN
    [removedProducers |-> removed,
     producers |-> [x \in (DOMAIN producers) \ Range(removed) |-> producers[x]],
     screenProducers |-> screenProducers \ Range(removed),
     availablePresentationIndexes |->
         ReleaseEach(availablePresentationIndexes, removed)]

\* ----------------------------------------------------- RoomState.cleanupUser
\* cleanupUser without the release of the presentation indexes.
cleanupUserKeepsSlots(socketId) ==
    [users |-> MapDelete(users, socketId),
     availableIndexes |->
         IF socketId \in DOMAIN users
         THEN releaseUserIndex(availableIndexes, users[socketId].userIndex)
         ELSE availableIndexes,
     availablePresentationIndexes |-> availablePresentationIndexes,
     screenProducers |-> screenProducers \ ScreenProducersOf(producers, socketId),
     producers |-> [x \in (DOMAIN producers) \ ProducersOf(producers, socketId)
                        |-> producers[x]],
     transports |-> [x \in (DOMAIN transports) \ TransportsOf(transports, socketId)
                        |-> transports[x]]]

\* cleanupUser without the removal of the transports.
cleanupUserKeepsTransports(socketId) ==
    [users |-> MapDelete(users, socketId),
     availableIndexes |->
         IF socketId \in DOMAIN users
         THEN releaseUserIndex(availableIndexes, users[socketId].userIndex)
         ELSE availableIndexes,
     availablePresentationIndexes |->
         ReleaseEach(availablePresentationIndexes,
                     InOrder(ScreenProducersOf(producers, socketId))),
     screenProducers |-> screenProducers \ ScreenProducersOf(producers, socketId),
     producers |-> [x \in (DOMAIN producers) \ ProducersOf(producers, socketId)
                        |-> producers[x]],
     transports |-> transports]

cleanupUser(socketId) ==
    [users |-> MapDelete(users, socketId),
     availableIndexes |->
         IF socketId \in DOMAIN users
         THEN releaseUserIndex(availableIndexes, users[socketId].userIndex)
         ELSE availableIndexes,
     availablePresentationIndexes |->
         ReleaseEach(availablePresentationIndexes,
                     InOrder(ScreenProducersOf(producers, socketId))),
     screenProducers |-> screenProducers \ ScreenProducersOf(producers, socketId),
     producers |-> [x \in (DOMAIN producers) \ ProducersOf(producers, socketId)
                        |-> producers[x]],
     transports |-> [x \in (DOMAIN transports) \ TransportsOf(transports, socketId)
                        |-> transports[x]]]

\* One presentation-ended emission per producer id of ids, to the sockets to;
\* fields is the payload besides the producer id.
RECURSIVE PresentationEnded(_, _, _)
PresentationEnded(ids, to, socketId) ==
    IF ids = <<>> THEN <<>>
    ELSE <<[to |-> to,
            msg |-> [type |-> "presentation-ended", producerId |-> Head(ids),
                     socketId |-> socketId]]>>
         \o PresentationEnded(Tail(ids), to, socketId)

\* ------------------- socket.on("set-name" / "toggle-video" / "toggle-audio")
\* What the client of a connected socket sends: its name once, when it joins
\* (client.js, startConference), and a toggle with the flag flipped on each
\* click (client.js, toggleVideo, toggleAudio).
ClientRenames(s) ==
    /\ connState[s] = "connected"
    /\ s \in DOMAIN users => users[s].name = "Anonymous"

ClientToggles(s, flag, enabled) ==
    /\ connState[s] = "connected"
    /\ s \in DOMAIN users => enabled = ~users[s][flag]

\* SetName with the update sent with io.emit: to every socket.
SetNameToAll(s, name) ==
    /\ ClientRenames(s)
    /\ IdsUsed < MaxIds
    /\ updates' = updates + 1
    /\ IF s \in DOMAIN users
       THEN /\ users' = [users EXCEPT ![s].name = name]
            /\ emitted' =
                 << [to |-> DOMAIN users,
                     msg |-> [type |-> "user-updated", socketId |-> s, name |-> name,
                              videoEnabled |-> users[s].videoEnabled,
                              audioEnabled |-> users[s].audioEnabled,
                              userIndex |-> users[s].userIndex]],
                    [to |-> DOMAIN users, msg |-> roomStatus(users, screenProducers)] >>
       ELSE /\ emitted' = <<>>
            /\ UNCHANGED users
    /\ resp' = NoError
    /\ firstMsg' = Deliver(emitted')
    /\ UNCHANGED <<connState, availableIndexes, transports, producers,
                   screenProducers, availablePresentationIndexes, pending,
                   nextTransportId, nextProducerId>>

SetName(s, name) ==
    /\ ClientRenames(s)
    /\ IdsUsed < MaxIds
    /\ updates' = updates + 1
    /\ IF s \in DOMAIN users
       THEN /\ users' = [users EXCEPT ![s].name = name]
            /\ emitted' =
                 << [to |-> (DOMAIN users) \ {s},
                     msg |-> [type |-> "user-updated", socketId |-> s, name |-> name,
                              videoEnabled |-> users[s].videoEnabled,
                              audioEnabled |-> users[s].audioEnabled,
                              userIndex |-> users[s].userIndex]],
                    [to |-> DOMAIN users, msg |-> roomStatus(users, screenProducers)] >>
       ELSE /\ emitted' = <<>>
            /\ UNCHANGED users
    /\ resp' = NoError
    /\ firstMsg' = Deliver(emitted')
    /\ UNCHANGED <<connState, availableIndexes, transports, producers,
                   screenProducers, availablePresentationIndexes, pending,
                   nextTransportId, nextProducerId>>

ToggleVideo(s, enabled) ==
    /\ ClientToggles(s, "videoEnabled", enabled)
    /\ IdsUsed < MaxIds
    /\ updates' = updates + 1
    /\ IF s \in DOMAIN users
       THEN /\ users' = [users EXCEPT ![s].videoEnabled = enabled]
            /\ emitted' =
                 << [to |-> (DOMAIN users) \ {s},
                     msg |-> [type |-> "user-video-toggled", socketId |-> s,
                              enabled |-> enabled]] >>
       ELSE /\ emitted' = <<>>
            /\ UNCHANGED users
    /\ resp' = NoError
    /\ firstMsg' = Deliver(emitted')
    /\ UNCHANGED <<connState, availableIndexes, transports, producers,
                   screenProducers, availablePresentationIndexes, pending,
                   nextTransportId, nextProducerId>>

ToggleAudio(s, enabled) ==
    /\ ClientToggles(s, "audioEnabled", enabled)
    /\ IdsUsed < MaxIds
    /\ updates' = updates + 1
    /\ IF s \in DOMAIN users
       THEN /\ users' = [users EXCEPT ![s].audioEnabled = enabled]
            /\ emitted' =
                 << [to |-> (DOMAIN users) \ {s},
                     msg |-> [type |-> "user-audio-toggled", socketId |-> s,
                              enabled |-> enabled]] >>
       ELSE /\ emitted' = <<>>
            /\ UNCHANGED users
    /\ resp' = NoError
    /\ firstMsg' = Deliver(emitted')
    /\ UNCHANGED <<connState, availableIndexes, transports, producers,
                   screenProducers, availablePresentationIndexes, pending,
                   nextTransportId, nextProducerId>>

\* ----------------------------------------- socket.on("stop-screen-share")
StopScreenShare(s) ==
    /\ s \in DOMAIN users
    /\ LET r == removeUserScreenShares(s) IN
         /\ producers' = r.producers
         /\ screenProducers' = r.screenProducers
         /\ availablePresentationIndexes' = r.availablePresentationIndexes
         /\ emitted' = PresentationEnded(r.removedProducers, DOMAIN users, s)
                       \o <<[to |-> DOMAIN users,
                             msg |-> roomStatus(users, r.screenProducers)]>>
    /\ resp' = NoError
    /\ firstMsg' = Deliver(emitted')
    /\ UNCHANGED <<connState, users, availableIndexes, transports, pending,
                   nextTransportId, nextProducerId>>

\* ------------------------------------------------ socket.on("disconnect")
\* The producers the handler's notification loop visits: it runs on the
\* directory as cleanupUser left it.
disconnectEnded(ps, s) == InOrder(ScreenProducersOf(ps, s))

Disconnect(s) ==
    /\ s \in DOMAIN users
    /\ connState' = [connState EXCEPT ![s] = "disconnected"]
    /\ LET r == cleanupUser(s) IN
         /\ users' = r.users
         /\ availableIndexes' = r.availableIndexes
         /\ availablePresentationIndexes' = r.availablePresentationIndexes
         /\ screenProducers' = r.screenProducers
         /\ producers' = r.producers
         /\ transports' = r.transports
         /\ emitted' =
              <<[to |-> (DOMAIN r.users) \ {s},
                 msg |-> [type |-> "user-left", socketId |-> s]]>>
              \o PresentationEnded(disconnectEnded(r.producers, s), DOMAIN r.users, 0)
              \o <<[to |-> DOMAIN r.users,
                    msg |-> roomStatus(r.users, r.screenProducers)]>>
    /\ resp' = NoError
    /\ firstMsg' = Deliver(emitted')
    /\ UNCHANGED <<pending, nextTransportId, nextProducerId>>

\* ----------------------------------------------------------------- Next
\* The handlers of the room, of its transports and of its producers.
Next ==
    \/ \E s \in Sockets : Connection(s) /\ UNCHANGED sideVars
    \/ \E s \in Sockets, d \in Directions :
          CreateTransport(s, d) /\ UNCHANGED sideVars
    \/ \E p \in pending : CreateTransportResume(p) /\ UNCHANGED sideVars
    \/ \E t \in TransportIds, k \in Kinds, src \in Sources :
          Produce(t, k, src) /\ UNCHANGED sideVars
    \/ \E p \in pending : ProduceResume(p) /\ UNCHANGED sideVars
    \/ \E p \in pending : EngineFailure(p) /\ UNCHANGED sideVars
    \/ \E s \in Sockets : StopScreenShare(s) /\ UNCHANGED sideVars
    \/ \E s \in Sockets : Disconnect(s) /\ UNCHANGED sideVars

Spec == Init /\ [][Next]_vars

\* The same handlers with those of the participants' names and flags.
RosterNext ==
    \/ Next
    \/ \E s \in Sockets, name \in Names :
          SetName(s, name) /\ UNCHANGED <<inbox, clientVars, shareVars>>
    \/ \E s \in Sockets, enabled \in BOOLEAN :
          ToggleVideo(s, enabled) /\ UNCHANGED <<inbox, clientVars, shareVars>>
    \/ \E s \in Sockets, enabled \in BOOLEAN :
          ToggleAudio(s, enabled) /\ UNCHANGED <<inbox, clientVars, shareVars>>

RosterSpec == Init /\ [][RosterNext]_vars

\* ---------------------------------- POST /connect-transport, POST /consume
\* POST /connect-transport: an unknown transport is answered 404; else the
\* transport is connected and success answered.  RoomState is not touched.
ConnectTransport(transportId) ==
    /\ transportId < nextTransportId
    /\ resp' = IF transportId \notin DOMAIN transports
               THEN Response("connect-transport", "request", 404)
               ELSE NoError
    /\ emitted' = <<>>
    /\ UNCHANGED <<connState, roomVars, pending, nextTransportId, nextProducerId,
                   firstMsg>>

\* POST /consume that does not look the producer up.
ConsumeAnyProducer(transportId, producerId, canConsume) ==
    /\ transportId < nextTransportId
    /\ producerId < nextProducerId
    /\ resp' = IF transportId \notin DOMAIN transports
               THEN Response("consume", "request", 404)
               ELSE IF ~canConsume
               THEN Response("consume", "request", 400)
               ELSE NoError
    /\ emitted' = <<>>
    /\ UNCHANGED <<connState, roomVars, pending, nextTransportId, nextProducerId,
                   firstMsg>>

\* POST /consume: an unknown transport or producer is answered 404, a
\* producer the router cannot serve to these capabilities (canConsume) 400;
\* else the consumer is created on the transport and described in the answer.
\* RoomState is not touched: the server keeps no record of its consumers.
Consume(transportId, producerId, canConsume) ==
    /\ transportId < nextTransportId
    /\ producerId < nextProducerId
    /\ resp' = IF transportId \notin DOMAIN transports
               THEN Response("consume", "request", 404)
               ELSE IF producerId \notin DOMAIN producers
               THEN Response("consume", "request", 404)
               ELSE IF ~canConsume
               THEN Response("consume", "request", 400)
               ELSE NoError
    /\ emitted' = <<>>
    /\ UNCHANGED <<connState, roomVars, pending, nextTransportId, nextProducerId,
                   firstMsg>>

\* The handlers of the room with those of the two requests that create
\* nothing in RoomState.
ControlNext ==
    \/ Next
    \/ \E t \in TransportIds : ConnectTransport(t) /\ UNCHANGED sideVars
    \/ \E t \in TransportIds, p \in ProducerIds, c \in BOOLEAN :
          Consume(t, p, c) /\ UNCHANGED sideVars

ControlSpec == Init /\ [][ControlNext]_vars

\* ================================================================ client
\* ------------------------------------------------------ consumeProducer
\* consumeProducer up to its first await, with consumers map cs: TRUE when
\* the call goes on to ask for a receive transport, FALSE when it returns at
\* once (its own camera, or a producer it already consumes).
\* A consumeProducer that does not skip the client's own camera.
StartsOwnCamera(cs, p, isPresentation) ==
    p \notin DOMAIN cs

\* A consumeProducer that does not look whether the producer is consumed.
StartsAgain(cs, p, isPresentation) ==
    ~(Descriptor(p).socketId = ME /\ ~isPresentation)

Starts(cs, p, isPresentation) ==
    /\ ~(Descriptor(p).socketId = ME /\ ~isPresentation)
    /\ p \notin DOMAIN cs

\* A call of consumeProducer suspended at an await: n numbers the calls, pc is
\* the await ("transport", "consume", "local"), drain tells whether
\* processPendingProducers awaits the call.
Call(n, p, isPresentation, pc, fromDrain) ==
    [n |-> n, id |-> p, isPresentation |-> isPresentation, pc |-> pc,
     drain |-> fromDrain]

\* The record of one call of consumeProducer.
Dispatch(p, isPresentation, ready, via) ==
    [id |-> p, isPresentation |-> isPresentation, ready |-> ready, via |-> via]

\* ------------------------------------------------ processPendingProducers
\* The first index from i on of array arr whose item starts a call; 0 if none.
RECURSIVE NextStart(_, _, _, _)
NextStart(cs, arr, i, isPresentation) ==
    IF i > Len(arr) THEN 0
    ELSE IF Starts(cs, arr[i], isPresentation) THEN i
    ELSE NextStart(cs, arr, i + 1, isPresentation)

\* The calls of consumeProducer a loop makes for items i..j of arr.
LoopLog(arr, i, j, isPresentation, ready) ==
    [k \in 1..(j - i + 1) |->
        Dispatch(arr[i + k - 1], isPresentation, ready, "drain")]

\* The presentation loop from item i of aq on, to its next await or to the end
\* of processPendingProducers; n0 is the number of calls made before.
DrainPresentations(cs, aq, i, live, ready, n0) ==
    LET j == NextStart(cs, aq, i, TRUE) IN
    IF j # 0
    THEN [drain |-> [phase |-> "presentations", idx |-> j, live |-> live,
                     arr |-> IF live THEN <<>> ELSE aq],
          log |-> LoopLog(aq, i, j, TRUE, ready),
          calls |-> {Call(n0 + (j - i + 1), aq[j], TRUE, "transport", TRUE)}]
    ELSE [drain |-> NoDrain,
          log |-> LoopLog(aq, i, Len(aq), TRUE, ready),
          calls |-> {}]

\* The producer loop from item i of ap on, then the presentation loop over the
\* array this.pendingPresentations names when it starts.
DrainProducers(cs, ap, i, live, ready, n0) ==
    LET k == NextStart(cs, ap, i, FALSE) IN
    IF k # 0
    THEN [drain |-> [phase |-> "producers", idx |-> k, live |-> live,
                     arr |-> IF live THEN <<>> ELSE ap],
          log |-> LoopLog(ap, i, k, FALSE, ready),
          calls |-> {Call(n0 + (k - i + 1), ap[k], FALSE, "transport", TRUE)}]
    ELSE LET first == LoopLog(ap, i, Len(ap), FALSE, ready)
             rest  == DrainPresentations(cs, pendingPresentations, 1, TRUE, ready,
                                         n0 + Len(first))
         IN [drain |-> rest.drain, log |-> first \o rest.log, calls |-> rest.calls]

\* processPendingProducers resumed after the call it awaited, with consumers
\* map cs: on with the loop it was in, over the array that loop iterates.
DrainResume(cs, ready, n0) ==
    IF drain.phase = "producers"
    THEN DrainProducers(cs, IF drain.live THEN pendingProducers ELSE drain.arr,
                        drain.idx + 1, drain.live, ready, n0)
    ELSE DrainPresentations(cs, IF drain.live THEN pendingPresentations ELSE drain.arr,
                            drain.idx + 1, drain.live, ready, n0)

\* The result r of a run of processPendingProducers is applied: its calls are
\* suspended, and at its end both queues are replaced by empty arrays and
\* startConference goes on.
ApplyDrain(r, others) ==
    /\ calls' = others \cup r.calls
    /\ drain' = r.drain
    /\ dispatched' = dispatched \o r.log
    /\ IF r.drain.phase = "none"
       THEN /\ pendingProducers' = <<>>
            /\ pendingPresentations' = <<>>
            /\ startPc' = "joined"
       ELSE /\ startPc' = "draining"
            /\ UNCHANGED <<pendingProducers, pendingPresentations>>

\* The call c ends, by return or by its catch block, with consumers map cs.
EndCall(c, cs) ==
    IF c.drain
    THEN ApplyDrain(DrainResume(cs, deviceReady, Len(dispatched)), calls \ {c})
    ELSE /\ calls' = calls \ {c}
         /\ UNCHANGED <<drain, dispatched, pendingProducers, pendingPresentations,
                        startPc>>

\* -------------------------------------------------------- startConference
\* startConference to its first await: the socket is created and the
\* listeners are set.
StartConference ==
    /\ startPc = "idle"
    /\ socketState = "none"
    /\ socketState' = "open"
    /\ startPc' = "negotiating"
    /\ UNCHANGED <<deviceLoaded, deviceReady, pendingProducers,
                   pendingPresentations, drain, calls, consumers,
                   consumerTransports, presentations, userStates, elements,
                   peersGrid, presGrid, swapSource, swapTarget, isSwapMode, visuals,
                   received, delivered, dispatched>>

\* After the connection, the local media and the router capabilities: the
\* Device is created, and its load is awaited.
DeviceCreated ==
    /\ startPc = "negotiating"
    /\ startPc' = "loading"
    /\ deviceLoaded' = TRUE
    /\ UNCHANGED <<socketState, deviceReady, pendingProducers,
                   pendingPresentations, drain, calls, consumers,
                   consumerTransports, presentations, userStates, elements,
                   peersGrid, presGrid, swapSource, swapTarget, isSwapMode, visuals,
                   received, delivered, dispatched>>

\* The device is loaded: deviceReady is set and processPendingProducers runs
\* to its first await, or to its end.
DeviceReady ==
    /\ startPc = "loading"
    /\ deviceReady' = TRUE
    /\ IF pendingProducers = <<>> /\ pendingPresentations = <<>>
       THEN /\ startPc' = "joined"
            /\ UNCHANGED <<pendingProducers, pendingPresentations, drain, calls,
                           dispatched>>
       ELSE ApplyDrain(DrainProducers(consumers, pendingProducers, 1, TRUE, TRUE,
                                      Len(dispatched)), calls)
    /\ UNCHANGED <<socketState, deviceLoaded, consumers, consumerTransports,
                   presentations, userStates, elements, peersGrid, presGrid,
                   swapSource, swapTarget, isSwapMode, visuals, received, delivered>>

\* ------------------------------------------------------- socket listeners
\* The cameras and the screen shares among the producer ids of a sequence.
Cameras(seq) == SelectSeq(seq, LAMBDA p : ~IsScreen(p))
Screens(seq) == SelectSeq(seq, LAMBDA p : IsScreen(p))

\* socket.on('init'): init is the first message on the socket.  us are the
\* users of its roster, ps the producers of its directory, which are of
\* peers: the socket has produced nothing when it connects.
RecvInit(us, ps) ==
    /\ socketState = "open"
    /\ received = 0
    /\ received < MaxEvents
    /\ received' = received + 1
    /\ elements' = [e \in DOMAIN elements |->
                       IF e = LocalElement
                       THEN [elements[e] EXCEPT !.label = ScrLabel(UserIndexOf(ME))]
                       ELSE elements[e]]
    /\ userStates' = [s \in (DOMAIN userStates) \cup (us \ {ME}) |->
                         IF s \in us THEN [userIndex |-> UserIndexOf(s)]
                         ELSE userStates[s]]
    /\ pendingProducers' = pendingProducers \o Cameras(InOrder(ps))
    /\ pendingPresentations' = pendingPresentations \o Screens(InOrder(ps))
    /\ delivered' = delivered \o InOrder(ps)
    /\ UNCHANGED <<socketState, startPc, deviceLoaded, deviceReady, drain, calls,
                   consumers, consumerTransports, presentations, peersGrid,
                   presGrid, swapSource, swapTarget, isSwapMode, visuals, dispatched>>

\* The server may announce producer p: it has not told this socket that p is
\* gone, and no screen share it announced and has not ended holds the
\* presentation slot of p (server.js, getNextPresentationIndex).
Announceable(p) ==
    /\ p \notin closedProducers
    /\ \A q \in Range(delivered) \ (closedProducers \cup {p}) :
          (IsScreen(p) /\ IsScreen(q))
              => PresentationIndexOf(q) # PresentationIndexOf(p)

\* A live creation event for producer p: buffered while the device is not
\* ready, else consumeProducer is called, and runs to its first await.
RecvCreation(p, isPresentation) ==
    /\ socketState = "open"
    /\ Announceable(p)
    /\ received >= 1
    /\ received < MaxEvents
    /\ received' = received + 1
    /\ delivered' = Append(delivered, p)
    /\ IF ~deviceReady
       THEN /\ IF isPresentation
               THEN /\ pendingPresentations' = Append(pendingPresentations, p)
                    /\ UNCHANGED pendingProducers
               ELSE /\ pendingProducers' = Append(pendingProducers, p)
                    /\ UNCHANGED pendingPresentations
            /\ UNCHANGED <<calls, dispatched>>
       ELSE /\ dispatched' =
                 Append(dispatched, Dispatch(p, isPresentation, deviceReady, "live"))
            /\ calls' = IF Starts(consumers, p, isPresentation)
                        THEN calls \cup {Call(Len(dispatched) + 1, p, isPresentation,
                                              "transport", FALSE)}
                        ELSE calls
            /\ UNCHANGED <<pendingProducers, pendingPresentations>>
    /\ UNCHANGED <<socketState, startPc, deviceLoaded, deviceReady, drain,
                   consumers, consumerTransports, presentations, userStates,
                   elements, peersGrid, presGrid, swapSource, swapTarget,
                   isSwapMode, visuals>>

\* socket.on('new-producer')
RecvNewProducer(p) == ~IsScreen(p) /\ RecvCreation(p, FALSE)

\* socket.on('new-presentation')
RecvNewPresentation(p) == IsScreen(p) /\ RecvCreation(p, TRUE)

\* -------------------------------------------- consumeProducer, its awaits
\* The answer to create-transport: the receive transport is created on the
\* device and recorded; with no device (after a disconnect) that throws, and
\* the catch block ends the call.
TransportCreated(c) ==
    /\ c \in calls
    /\ c.pc = "transport"
    /\ IF deviceLoaded
       THEN /\ consumerTransports' = consumerTransports \cup {c.n}
            /\ calls' = (calls \ {c}) \cup {[c EXCEPT !.pc = "consume"]}
            /\ UNCHANGED <<drain, dispatched, pendingProducers,
                           pendingPresentations, startPc>>
       ELSE /\ EndCall(c, consumers)
            /\ UNCHANGED consumerTransports
    /\ UNCHANGED <<socketState, deviceLoaded, deviceReady, consumers, presentations,
                   userStates, elements, peersGrid, presGrid, swapSource,
                   swapTarget, isSwapMode, visuals, received, delivered>>

\* The answer to consume: the local consumer is asked of the transport.
ConsumeAnswered(c) ==
    /\ c \in calls
    /\ c.pc = "consume"
    /\ c.id \notin closedProducers
    /\ calls' = (calls \ {c}) \cup {[c EXCEPT !.pc = "local"]}
    /\ UNCHANGED <<socketState, startPc, deviceLoaded, deviceReady,
                   pendingProducers, pendingPresentations, drain, consumers,
                   consumerTransports, presentations, userStates, elements,
                   peersGrid, presGrid, swapSource, swapTarget, isSwapMode, visuals,
                   received, delivered, dispatched>>

\* createUserElement / createPresentationElement with setupMediaElement: the
\* element e is created with its label at the end of its grid unless the
\* document has it, and shows the video of producer p.
WithElement(els, e, label, p) ==
    [x \in (DOMAIN els) \cup {e} |->
        IF x = e
        THEN [label |-> IF e \in DOMAIN els THEN els[e].label ELSE label,
              video |-> p]
        ELSE els[x]]

\* The local consumer is there: the consumer is recorded and rendered.
ConsumerCreated(c) ==
    /\ c \in calls
    /\ c.pc = "local"
    /\ consumers' = MapSet(consumers, c.id,
                           [transport |-> c.n, socketId |-> Descriptor(c.id).socketId,
                            isPresentation |-> c.isPresentation])
    /\ IF c.isPresentation
       THEN /\ presentations' = MapSet(presentations, c.id,
                    [socketId |-> Descriptor(c.id).socketId,
                     presentationIndex |-> Descriptor(c.id).presentationIndex])
            /\ elements' = WithElement(elements, PresentationElement(c.id),
                               PrLabel(Descriptor(c.id).presentationIndex), c.id)
            /\ presGrid' = IF PresentationElement(c.id) \in DOMAIN elements
                           THEN presGrid
                           ELSE Append(presGrid, PresentationElement(c.id))
            /\ UNCHANGED <<userStates, peersGrid>>
       ELSE /\ userStates' = IF Descriptor(c.id).socketId \in DOMAIN userStates
                             THEN userStates
                             ELSE MapSet(userStates, Descriptor(c.id).socketId,
                                         [userIndex |-> Descriptor(c.id).userIndex])
            /\ elements' = WithElement(elements, UserElement(Descriptor(c.id).socketId),
                               ScrLabel(Descriptor(c.id).userIndex), c.id)
            /\ peersGrid' = IF UserElement(Descriptor(c.id).socketId) \in DOMAIN elements
                            THEN peersGrid
                            ELSE Append(peersGrid, UserElement(Descriptor(c.id).socketId))
            /\ UNCHANGED <<presentations, presGrid>>
    /\ EndCall(c, consumers')
    /\ UNCHANGED <<socketState, deviceLoaded, deviceReady, consumerTransports,
                   swapSource, swapTarget, isSwapMode, visuals, received, delivered>>

\* consumeProducer without its catch block: the rejection leaves
\* processPendingProducers by its loop, which is abandoned.
ConsumeFailsUncaught(c) ==
    /\ c \in calls
    /\ calls' = calls \ {c}
    /\ drain' = IF c.drain THEN NoDrain ELSE drain
    /\ UNCHANGED <<dispatched, pendingProducers, pendingPresentations, startPc>>
    /\ UNCHANGED <<socketState, deviceLoaded, deviceReady, consumers,
                   consumerTransports, presentations, userStates, elements,
                   peersGrid, presGrid, swapSource, swapTarget, isSwapMode, visuals,
                   received, delivered>>

\* An await of the call rejects (the request fails, the server answers an
\* error, the transport cannot consume): the catch block logs it.
ConsumeFails(c) ==
    /\ c \in calls
    /\ EndCall(c, consumers)
    /\ UNCHANGED <<socketState, deviceLoaded, deviceReady, consumers,
                   consumerTransports, presentations, userStates, elements,
                   peersGrid, presGrid, swapSource, swapTarget, isSwapMode, visuals,
                   received, delivered>>

\* ------------------------------------------------------- handleDisconnect
\* handleDisconnect: the client is reset.  A processPendingProducers that is
\* suspended keeps the array its loop iterates.
handleDisconnect ==
    /\ consumers' = <<>>
    /\ consumerTransports' = {}
    /\ userStates' = <<>>
    /\ presentations' = <<>>
    /\ drain' = IF drain.phase # "none" /\ drain.live
                THEN [drain EXCEPT !.live = FALSE,
                                   !.arr = IF drain.phase = "producers"
                                           THEN pendingProducers
                                           ELSE pendingPresentations]
                ELSE drain
    /\ pendingProducers' = <<>>
    /\ pendingPresentations' = <<>>
    /\ deviceReady' = FALSE
    /\ deviceLoaded' = FALSE
    /\ isSwapMode' = FALSE
    /\ swapSource' = NoSelection
    /\ swapTarget' = NoSelection
    /\ peersGrid' = IF Len(peersGrid) > 1 THEN <<Head(peersGrid)>> ELSE peersGrid
    /\ presGrid' = <<>>
    /\ elements' = [e \in Range(peersGrid') |-> elements[e]]
    /\ visuals' = ClearedVisuals(InDocument(visuals, DOMAIN elements'),
                                  DOMAIN elements')
    /\ ownProducers' = <<>>
    /\ UNCHANGED <<calls, received, delivered, dispatched,
                   isSharingScreen, screenTracks, capturing, closedProducers>>

\* socket.on('disconnect'): the connection is lost and handleDisconnect runs.
ClientDisconnect ==
    /\ socketState = "open"
    /\ socketState' = "closed"
    /\ handleDisconnect
    /\ UNCHANGED startPc

\* The catch block of startConference without its socket.disconnect(): the
\* attempt ends and the connection stays.
LocalMediaDeniedSocketKept ==
    /\ startPc = "negotiating"
    /\ socketState = "open"
    /\ startPc' = "idle"
    /\ UNCHANGED <<socketState, deviceLoaded, deviceReady, pendingProducers,
                   pendingPresentations, drain, calls, consumers,
                   consumerTransports, presentations, userStates, elements,
                   peersGrid, presGrid, swapSource, swapTarget, isSwapMode, visuals,
                   received, delivered, dispatched, closedProducers, shareVars>>

\* getUserMedia rejects while startConference awaits it: the catch block of
\* startConference has no local stream to stop, and disconnects the socket,
\* whose 'disconnect' listener runs handleDisconnect; startConference ends
\* with isStarted false.
LocalMediaDenied ==
    /\ startPc = "negotiating"
    /\ socketState = "open"
    /\ socketState' = "closed"
    /\ handleDisconnect
    /\ startPc' = "idle"

\* ------------------------------------------------------- the video grid
\* The .video-wrapper elements in document order: the presentations section
\* is created after #peersContainer.
Document == peersGrid \o presGrid

\* A findVideoContainerByScreen that answers the first wrapper of the
\* document, whatever its label.
findFirstContainer(screenId) ==
    IF Len(Document) = 0 THEN NoElement ELSE Document[1]

findVideoContainerByScreen(screenId) ==
    LET hits == {i \in 1..Len(Document) : elements[Document[i]].label = screenId}
    IN IF hits = {} THEN NoElement ELSE Document[Min(hits)]

\* A grid without the elements of E, and a grid with a and b exchanged.
Without(grid, E) == SelectSeq(grid, LAMBDA e : e \notin E)

Exchange(grid, a, b) ==
    [i \in 1..Len(grid) |->
        IF grid[i] = a THEN b ELSE IF grid[i] = b THEN a ELSE grid[i]]

Restrict(m, S) == [x \in S |-> m[x]]

\* updateVideoSwitcherList: the items of the switcher, each with the id and
\* the label selectForSwap gets.
SwitcherItems ==
    {[id |-> LocalElement, screen |-> ScrLabel(UserIndexOf(ME))]}
    \cup {[id |-> UserElement(x), screen |-> ScrLabel(userStates[x].userIndex)] :
             x \in (DOMAIN userStates) \ {ME}}
    \cup {[id |-> PresentationElement(p),
           screen |-> PrLabel(presentations[p].presentationIndex)] :
             p \in DOMAIN presentations}

\* highlightSwapSource: the highlights are cleared, and the container of the
\* label, if there is one, gets the class swap-source and the default cursor.
highlightSwapSource(v, screenId) ==
    LET sourceContainer == findVideoContainerByScreen(screenId)
        cleared == clearSwapHighlights(v, DOMAIN elements)
    IN IF sourceContainer = NoElement THEN cleared
       ELSE [cleared EXCEPT !.styled = @ \cup {<<sourceContainer, "swap-source">>,
                                               <<sourceContainer, "cursor-default">>}]

\* highlightSwapTarget: the container of the label gets the class swap-target.
highlightSwapTarget(v, screenId) ==
    LET targetContainer == findVideoContainerByScreen(screenId)
    IN IF targetContainer = NoElement THEN v
       ELSE [v EXCEPT !.styled = @ \cup {<<targetContainer, "swap-target">>}]

\* enableSwapModeVisuals: every wrapper without the class swap-source gets the
\* pointer cursor and the opacity; the body gets the class swap-mode.
enableSwapModeVisuals(v) ==
    [v EXCEPT !.styled = {x \in @ : <<x[1], "swap-source">> \in v.styled
                                    \/ x[2] \notin {"cursor-default", "cursor-pointer"}}
                         \cup {<<e, "cursor-pointer">> :
                                 e \in {d \in DOMAIN elements :
                                          <<d, "swap-source">> \notin v.styled}}
                         \cup {<<e, "opacity">> :
                                 e \in {d \in DOMAIN elements :
                                          <<d, "swap-source">> \notin v.styled}},
              !.body = TRUE]

\* A cancelSwap that leaves this.isSwapMode as it is.
cancelSwapLeavesMode(v) ==
    /\ swapSource' = NoSelection
    /\ swapTarget' = NoSelection
    /\ isSwapMode' = isSwapMode
    /\ visuals' = ClearedVisuals(v, DOMAIN elements)

\* cancelSwap and completeSwap, with the visuals v the caller left.
cancelSwapWith(v) ==
    /\ swapSource' = NoSelection
    /\ swapTarget' = NoSelection
    /\ isSwapMode' = FALSE
    /\ visuals' = ClearedVisuals(v, DOMAIN elements)

completeSwapWith(v) ==
    /\ swapSource' = NoSelection
    /\ swapTarget' = NoSelection
    /\ isSwapMode' = FALSE
    /\ visuals' = ClearedVisuals(v, DOMAIN elements)

cancelSwap == cancelSwapWith(visuals)

completeSwap == completeSwapWith(visuals)

\* The marker element swapVideoContainers creates.
TempMarker == [type |-> "temp", n |-> 0]

\* parent.insertBefore(node, ref) on the child sequence grid of the parent: the
\* node leaves the place it has, if any, and is put before ref.
insertBefore(grid, node, ref) ==
    LET g == Without(grid, {node})
        i == CHOOSE k \in 1..Len(g) : g[k] = ref
    IN SubSeq(g, 1, i - 1) \o <<node>> \o SubSeq(g, i, Len(g))

\* A swapVideoContainers that moves the second container before the first.
swapBefore(grid, a, b) == IF a = b THEN grid ELSE insertBefore(grid, b, a)

\* swapVideoContainers on the children of the one parent: a marker is put
\* before b, b before a, a before the marker, and the marker is removed.
swapInParent(grid, a, b) ==
    IF a = b THEN grid
    ELSE LET marked  == insertBefore(grid, TempMarker, b)
             bMoved  == insertBefore(marked, b, a)
             aMoved  == insertBefore(bMoved, a, TempMarker)
         IN Without(aMoved, {TempMarker})

\* swapVideoContainers: both containers in one grid.
swapVideoContainers(a, b) ==
    IF a \in Range(peersGrid)
    THEN /\ peersGrid' = swapInParent(peersGrid, a, b)
         /\ UNCHANGED presGrid
    ELSE /\ presGrid' = swapInParent(presGrid, a, b)
         /\ UNCHANGED peersGrid

\* A swapCrossContainers that does not append the target again.
relocateDroppingTarget(a, b) ==
    IF a \in Range(peersGrid)
    THEN /\ peersGrid' = Without(peersGrid, {a})
         /\ presGrid' = Append(Without(presGrid, {b}), a)
    ELSE /\ presGrid' = Without(presGrid, {a})
         /\ peersGrid' = Append(Without(peersGrid, {b}), a)

\* A swapCrossContainers that moves the source only.
moveSourceOnly(a, b) ==
    IF a \in Range(peersGrid)
    THEN /\ peersGrid' = Without(peersGrid, {a})
         /\ presGrid' = Append(presGrid, a)
    ELSE /\ presGrid' = Without(presGrid, {a})
         /\ peersGrid' = Append(peersGrid, a)

\* swapCrossContainers: each container goes to the end of the other's grid.
swapCrossContainers(a, b) ==
    IF a \in Range(peersGrid)
    THEN /\ peersGrid' = Append(Without(peersGrid, {a}), b)
         /\ presGrid' = Append(Without(presGrid, {b}), a)
    ELSE /\ presGrid' = Append(Without(presGrid, {a}), b)
         /\ peersGrid' = Append(Without(peersGrid, {b}), a)

\* performSwap with this.swapSource = source and this.swapTarget = target,
\* after the highlightSwapTarget its callers do.
performSwap(source, target) ==
    LET sourceContainer == findVideoContainerByScreen(source.screen)
        targetContainer == findVideoContainerByScreen(target.screen)
        highlighted     == highlightSwapTarget(visuals, target.screen)
    IN
    IF source.id = target.id
    THEN cancelSwapWith(highlighted) /\ UNCHANGED <<peersGrid, presGrid>>
    ELSE IF sourceContainer = NoElement \/ targetContainer = NoElement
    THEN cancelSwapWith(highlighted) /\ UNCHANGED <<peersGrid, presGrid>>
    ELSE /\ IF (sourceContainer \in Range(peersGrid))
                 = (targetContainer \in Range(peersGrid))
            THEN swapVideoContainers(sourceContainer, targetContainer)
            ELSE swapCrossContainers(sourceContainer, targetContainer)
         /\ completeSwapWith(highlighted)

\* A selectForSwap that takes the item as the new source whenever it is
\* called.
selectForSwapAsSource(sourceId, screenId) ==
    /\ swapSource' = [id |-> sourceId, screen |-> screenId,
                      marked |-> findVideoContainerByScreen(screenId) # NoElement]
    /\ isSwapMode' = TRUE
    /\ visuals' = [enableSwapModeVisuals(highlightSwapSource(visuals, screenId))
                      EXCEPT !.banner = TRUE]
    /\ UNCHANGED <<swapTarget, peersGrid, presGrid>>

selectForSwap(sourceId, screenId) ==
    IF swapSource = NoSelection
    THEN /\ swapSource' = [id |-> sourceId, screen |-> screenId,
                           marked |-> findVideoContainerByScreen(screenId) # NoElement]
         /\ isSwapMode' = TRUE
         /\ visuals' = [enableSwapModeVisuals(highlightSwapSource(visuals, screenId))
                           EXCEPT !.banner = TRUE]
         /\ UNCHANGED <<swapTarget, peersGrid, presGrid>>
    ELSE performSwap(swapSource,
                     [id |-> sourceId, screen |-> screenId, marked |-> FALSE])

\* A click on Select of a switcher item.
ClickSelect(item) ==
    /\ item \in SwitcherItems
    /\ selectForSwap(item.id, item.screen)
    /\ UNCHANGED <<socketState, startPc, deviceLoaded, deviceReady,
                   pendingProducers, pendingPresentations, drain, calls,
                   consumers, consumerTransports, presentations, userStates,
                   elements, received, delivered, dispatched>>

\* A click on a video of the grid in swap mode (the body listener and
\* handleVideoGridClick): the element with the class swap-source is not
\* clickable.
ClickVideo(e) ==
    /\ isSwapMode
    /\ e \in DOMAIN elements
    /\ ~(swapSource.marked /\ e = findVideoContainerByScreen(swapSource.screen))
    /\ swapSource # NoSelection
    /\ performSwap(swapSource,
                   [id |-> e, screen |-> elements[e].label, marked |-> FALSE])
    /\ UNCHANGED <<socketState, startPc, deviceLoaded, deviceReady,
                   pendingProducers, pendingPresentations, drain, calls,
                   consumers, consumerTransports, presentations, userStates,
                   elements, received, delivered, dispatched>>

\* A click that closes the switcher while a source is selected.
ClickClose ==
    /\ swapSource # NoSelection
    /\ cancelSwap
    /\ UNCHANGED <<socketState, startPc, deviceLoaded, deviceReady,
                   pendingProducers, pendingPresentations, drain, calls,
                   consumers, consumerTransports, presentations, userStates,
                   elements, peersGrid, presGrid, received, delivered,
                   dispatched>>

\* ------------------------------------------------------------- removals
\* The elements of E leave the document; a swap whose source or target is one
\* of them is cancelled.
RemoveElements(E) ==
    /\ elements' = Restrict(elements, (DOMAIN elements) \ E)
    /\ peersGrid' = Without(peersGrid, E)
    /\ presGrid' = Without(presGrid, E)
    /\ IF swapSource.id \in E \/ swapTarget.id \in E
       THEN cancelSwap
       ELSE /\ visuals' = InDocument(visuals, DOMAIN elements')
            /\ UNCHANGED <<swapSource, swapTarget, isSwapMode>>

\* removeUserPresentations: the producers of the presentation mirror that
\* socket x owns.
\* A removeUser that leaves the presentations of the user.
removeNoPresentations(x) == {}

removeUserPresentations(x) ==
    {p \in DOMAIN presentations : presentations[p].socketId = x}

\* socket.on('presentation-ended'): removePresentation.
RecvPresentationEnded(p) ==
    /\ socketState = "open"
    /\ received >= 1
    /\ received < MaxEvents
    /\ IsScreen(p)
    /\ p \in Range(delivered) \ closedProducers
    /\ closedProducers' = closedProducers \cup {p}
    /\ received' = received + 1
    /\ RemoveElements({PresentationElement(p)})
    /\ consumers' = MapDelete(consumers, p)
    /\ presentations' = MapDelete(presentations, p)
    /\ UNCHANGED <<socketState, startPc, deviceLoaded, deviceReady,
                   pendingProducers, pendingPresentations, drain, calls,
                   consumerTransports, userStates, delivered, dispatched>>

\* socket.on('user-left'): removeUser.
RecvUserLeft(x) ==
    /\ socketState = "open"
    /\ received >= 1
    /\ received < MaxEvents
    /\ received' = received + 1
    /\ LET shares == removeUserPresentations(x) IN
       /\ RemoveElements({UserElement(x)}
                         \cup {PresentationElement(p) : p \in shares})
       /\ consumers' = Restrict(consumers,
              {p \in DOMAIN consumers :
                  p \notin shares /\ consumers[p].socketId # x})
       /\ presentations' = Restrict(presentations, (DOMAIN presentations) \ shares)
    /\ userStates' = MapDelete(userStates, x)
    /\ closedProducers' =
         closedProducers \cup {p \in Range(delivered) : Owner(p) = x}
    /\ UNCHANGED <<socketState, startPc, deviceLoaded, deviceReady,
                   pendingProducers, pendingPresentations, drain, calls,
                   consumerTransports, delivered, dispatched>>

\* ------------------------------------------------------------ ClientNext
\* The handler op, about the element, user, producer or call n, has run.
Ran(op, type, n) == lastHandler' = Handler(op, type, n, swapSource.id)

\* The handlers of a client whose connection holds and whose requests succeed.
ConsumptionNext ==
    \/ StartConference /\ Ran("startConference", "none", 0) /\ UNCHANGED offClient
    \/ DeviceCreated /\ Ran("startConference", "none", 1) /\ UNCHANGED offClient
    \/ DeviceReady /\ Ran("startConference", "none", 2) /\ UNCHANGED offClient
    \/ \E us \in SUBSET Peers, ps \in SUBSET {p \in RemoteProducers : Owner(p) # ME} :
          RecvInit(us, ps) /\ Ran("init", "none", 0) /\ UNCHANGED offClient
    \/ \E p \in RemoteProducers :
          RecvNewProducer(p) /\ Ran("new-producer", "producer", p)
          /\ UNCHANGED offClient
    \/ \E p \in RemoteProducers :
          RecvNewPresentation(p) /\ Ran("new-presentation", "producer", p)
          /\ UNCHANGED offClient
    \/ \E p \in RemoteProducers :
          RecvPresentationEnded(p) /\ Ran("presentation-ended", "producer", p)
          /\ UNCHANGED <<serverVars, shareVars>>
    \/ \E x \in Peers :
          RecvUserLeft(x) /\ Ran("user-left", "user", x) /\ UNCHANGED <<serverVars, shareVars>>
    \/ \E c \in calls :
          TransportCreated(c) /\ Ran("transport", "call", c.n) /\ UNCHANGED offClient
    \/ \E c \in calls :
          ConsumeAnswered(c) /\ Ran("consume", "call", c.n) /\ UNCHANGED offClient
    \/ \E c \in calls :
          ConsumerCreated(c) /\ Ran("consumer", "call", c.n) /\ UNCHANGED offClient

\* The client: its handlers, the failures of its requests and the loss of its
\* connection.
ClientNext ==
    \/ ConsumptionNext
    \/ \E c \in calls :
          ConsumeFails(c) /\ Ran("catch", "call", c.n) /\ UNCHANGED offClient
    \/ ClientDisconnect /\ Ran("disconnect", "none", 0) /\ UNCHANGED serverVars

ClientSpec == Init /\ [][ClientNext]_vars

\* An await of a consumeProducer call settles: the request is answered, the
\* local consumer is created, or the await rejects.
CallSettles ==
    \E c \in calls :
       \/ TransportCreated(c) /\ Ran("transport", "call", c.n) /\ UNCHANGED offClient
       \/ ConsumeAnswered(c) /\ Ran("consume", "call", c.n) /\ UNCHANGED offClient
       \/ ConsumerCreated(c) /\ Ran("consumer", "call", c.n) /\ UNCHANGED offClient
       \/ ConsumeFails(c) /\ Ran("catch", "call", c.n) /\ UNCHANGED offClient

\* The client whose awaits all settle: a fetch is answered or fails, a promise
\* of the media library resolves or rejects.
ClientFairSpec == ClientSpec /\ WF_vars(CallSettles)

\* The client and its user rearranging the videos, while the connection holds
\* and the requests succeed.
SwitcherNext ==
    \/ ConsumptionNext
    \/ \E item \in SwitcherItems :
          ClickSelect(item) /\ Ran("selectForSwap", item.id.type, item.id.n)
          /\ UNCHANGED offClient
    \/ \E e \in DOMAIN elements :
          ClickVideo(e) /\ Ran("handleVideoGridClick", e.type, e.n)
          /\ UNCHANGED offClient
    \/ ClickClose /\ Ran("cancelSwap", "none", 0) /\ UNCHANGED offClient

SwitcherSpec == Init /\ [][SwitcherNext]_vars

\* ---------------------------------------------------- the full room
\* The client in a room of MAX_USERS with MAX_SCREEN_SHARES screen shares: it
\* got the init snapshot (peers 2 and 3, the cameras cams and the screen share
\* of peer 2) before its device was ready, consumed it in the drain, then
\* started its own screen share and consumed it.  cams is <<1, 5>>, or <<1>>
\* when peer 3 has no camera yet and so no element.
FullRoom(cams) ==
    LET order == cams \o <<2, 3>>
        n(p)  == CHOOSE i \in 1..Len(order) : order[i] = p
        ids   == Range(order)
    IN
    /\ socketState = "open"
    /\ startPc = "joined"
    /\ deviceLoaded = TRUE
    /\ deviceReady = TRUE
    /\ pendingProducers = <<>>
    /\ pendingPresentations = <<>>
    /\ drain = NoDrain
    /\ calls = {}
    /\ consumers = [p \in ids |->
                       [transport |-> n(p), socketId |-> Owner(p),
                        isPresentation |-> IsScreen(p)]]
    /\ consumerTransports = 1..Len(order)
    /\ presentations = [p \in {2, 3} |->
                           [socketId |-> Owner(p),
                            presentationIndex |-> PresentationIndexOf(p)]]
    /\ userStates = [x \in {2, 3} |-> [userIndex |-> UserIndexOf(x)]]
    /\ elements = [e \in {LocalElement}
                         \cup {UserElement(Owner(cams[i])) : i \in 1..Len(cams)}
                         \cup {PresentationElement(2), PresentationElement(3)} |->
                      IF e = LocalElement
                      THEN [label |-> ScrLabel(UserIndexOf(ME)), video |-> 0]
                      ELSE IF e.type = "user"
                      THEN [label |-> ScrLabel(UserIndexOf(e.n)),
                            video |-> CHOOSE p \in Range(cams) : Owner(p) = e.n]
                      ELSE [label |-> PrLabel(PresentationIndexOf(e.n)),
                            video |-> e.n]]
    /\ peersGrid = <<LocalElement>>
                   \o [i \in 1..Len(cams) |-> UserElement(Owner(cams[i]))]
    /\ presGrid = <<PresentationElement(2), PresentationElement(3)>>
    /\ swapSource = NoSelection
    /\ swapTarget = NoSelection
    /\ isSwapMode = FALSE
    /\ visuals = NoVisuals
    /\ received = 2
    /\ delivered = SortAscending(cams \o <<2>>) \o <<3>>
    /\ dispatched = [i \in 1..Len(order) |->
                        Dispatch(order[i], IsScreen(order[i]), TRUE,
                                 IF order[i] = 3 THEN "live" ELSE "drain")]
    /\ lastHandler = Handler("consumer", "call", Len(order), NoElement)
    /\ isSharingScreen = TRUE
    /\ screenTracks = <<>>
    /\ ownProducers = ("camera-video" :> 4) @@ ("screen-video" :> 3)
    /\ capturing = FALSE
    /\ closedProducers = {}

ArrangementInit == RoomInit /\ \E cams \in {<<1, 5>>, <<1>>} : FullRoom(cams)

\* The user rearranging the videos of the full room, while a screen share
\* may end, a peer may leave and the connection may be lost.
ArrangementNext ==
    \/ \E item \in SwitcherItems :
          ClickSelect(item) /\ Ran("selectForSwap", item.id.type, item.id.n)
          /\ UNCHANGED offClient
    \/ \E e \in DOMAIN elements :
          ClickVideo(e) /\ Ran("handleVideoGridClick", e.type, e.n)
          /\ UNCHANGED offClient
    \/ ClickClose /\ Ran("cancelSwap", "none", 0) /\ UNCHANGED offClient
    \/ \E p \in RemoteProducers :
          RecvPresentationEnded(p) /\ Ran("presentation-ended", "producer", p)
          /\ UNCHANGED <<serverVars, shareVars>>
    \/ \E x \in Peers :
          RecvUserLeft(x) /\ Ran("user-left", "user", x) /\ UNCHANGED <<serverVars, shareVars>>
    \/ ClientDisconnect /\ Ran("disconnect", "none", 0) /\ UNCHANGED serverVars

ArrangementSpec == ArrangementInit /\ [][ArrangementNext]_vars

\* ------------------------------------------------------ screen sharing
\* The client of socket ME in the room of the server: it stays connected,
\* produces its camera and shares its screen, while the other sockets connect,
\* produce, stop sharing and disconnect.

\* The send transport of the client, as the server recorded it
\* (this.producerTransport.id).
producerTransport ==
    {t \in DOMAIN transports :
        transports[t].socketId = ME /\ transports[t].direction = "send"}

\* The tracks getDisplayMedia may give: the video of the screen, with or
\* without its audio.
DisplayMedia == {<<"video">>, <<"video", "audio">>}

\* The keys of this.producers.
CameraKey(kind) == IF kind = "video" THEN "camera-video" ELSE "camera-audio"
ScreenKey(kind) == IF kind = "video" THEN "screen-video" ELSE "screen-audio"
ScreenKeys == {"screen-video", "screen-audio"}

\* The source the 'produce' handler of the send transport names in its
\* request.
ProduceSource == IF isSharingScreen THEN "screen" ELSE "camera"

\* The catch block of toggleScreenShare, reached when a produce of
\* produceScreenTracks is rejected: the mode is left, the producers the
\* attempt already created stay in this.producers, nothing is sent.
ShareCaught ==
    /\ isSharingScreen' = FALSE
    /\ screenTracks' = <<>>
    /\ UNCHANGED <<ownProducers, capturing>>

\* produceCameraTracks: the request for one camera track, sent while the
\* client is not sharing.
CameraProduce(kind) ==
    /\ connState[ME] = "connected"
    /\ ~isSharingScreen /\ screenTracks = <<>> /\ ~capturing
    /\ CameraKey(kind) \notin DOMAIN ownProducers
    /\ \E t \in producerTransport : Produce(t, kind, ProduceSource)
    /\ UNCHANGED <<updates, inbox, clientVars, shareVars>>

\* A produce request of another socket.
PeerProduce(t, kind, source) ==
    /\ t \in DOMAIN transports => transports[t].socketId # ME
    /\ Produce(t, kind, source)
    /\ UNCHANGED <<updates, inbox, clientVars, shareVars>>

\* toggleScreenShare, start branch, to its await of getDisplayMedia: the mode
\* is entered before the display media is asked for.
ShareStart ==
    /\ connState[ME] = "connected"
    /\ producerTransport # {}
    /\ ~isSharingScreen /\ screenTracks = <<>> /\ ~capturing
    /\ \A p \in PendingOf("produce") : p.socketId # ME
    /\ isSharingScreen' = TRUE
    /\ capturing' = TRUE
    /\ UNCHANGED <<serverVars, clientVars, screenTracks, ownProducers>>

\* getDisplayMedia resolves: the stream is kept and produceScreenTracks is
\* called, in whatever mode the client is by then.
DisplayMediaGranted(tracks) ==
    /\ connState[ME] = "connected"
    /\ capturing
    /\ capturing' = FALSE
    /\ screenTracks' = tracks
    /\ UNCHANGED <<serverVars, clientVars, isSharingScreen, ownProducers>>

\* getDisplayMedia rejects: the catch block of toggleScreenShare leaves the
\* mode.
DisplayMediaDenied ==
    /\ capturing
    /\ capturing' = FALSE
    /\ isSharingScreen' = FALSE
    /\ UNCHANGED <<serverVars, clientVars, screenTracks, ownProducers>>

\* produceScreenTracks asks for the producer of its next track; a refusal
\* (403) is thrown up to the catch block of toggleScreenShare.
ShareProduce ==
    /\ connState[ME] = "connected"
    /\ screenTracks # <<>>
    /\ \E t \in producerTransport : Produce(t, Head(screenTracks), ProduceSource)
    /\ IF resp' = NoError
       THEN UNCHANGED shareVars
       ELSE ShareCaught
    /\ UNCHANGED <<updates, inbox, clientVars>>

\* The server answers a produce request; the client of socket ME records its
\* producer under the key of the track, and goes on to the next track of a
\* screen share or, when the answer is a refusal, to the catch block.
ProduceAnswered(p) ==
    /\ ProduceResume(p)
    /\ IF p.socketId # ME THEN UNCHANGED shareVars
       ELSE IF screenTracks = <<>>
       THEN /\ ownProducers' = IF resp' = NoError
                               THEN MapSet(ownProducers, CameraKey(p.kind),
                                           nextProducerId)
                               ELSE ownProducers
            /\ UNCHANGED <<isSharingScreen, screenTracks, capturing>>
       ELSE IF resp' = NoError
       THEN /\ ownProducers' = MapSet(ownProducers, ScreenKey(p.kind),
                                      nextProducerId)
            /\ screenTracks' = Tail(screenTracks)
            /\ UNCHANGED <<isSharingScreen, capturing>>
       ELSE ShareCaught
    /\ UNCHANGED <<updates, inbox, clientVars>>

\* toggleScreenShare, stop branch, with the server's stop-screen-share
\* handler: the screen producers are closed and forgotten on both sides.  The
\* branch is taken whenever the mode is on, also by a press of the button
\* while an earlier press awaits getDisplayMedia.
ShareStop ==
    /\ connState[ME] = "connected"
    /\ isSharingScreen /\ screenTracks = <<>>
    /\ StopScreenShare(ME)
    /\ ownProducers' = [k \in (DOMAIN ownProducers) \ ScreenKeys |-> ownProducers[k]]
    /\ isSharingScreen' = FALSE
    /\ UNCHANGED <<screenTracks, capturing, updates, inbox, clientVars>>

ShareNext ==
    \/ \E s \in Sockets : Connection(s) /\ UNCHANGED sideVars
    \/ \E s \in Sockets : CreateTransport(s, "send") /\ UNCHANGED sideVars
    \/ \E p \in pending : CreateTransportResume(p) /\ UNCHANGED sideVars
    \/ \E t \in TransportIds, k \in Kinds, src \in Sources : PeerProduce(t, k, src)
    \/ \E k \in Kinds : CameraProduce(k)
    \/ ShareStart
    \/ \E tracks \in DisplayMedia : DisplayMediaGranted(tracks)
    \/ DisplayMediaDenied
    \/ ShareProduce
    \/ \E p \in pending : ProduceAnswered(p)
    \/ ShareStop
    \/ \E s \in Sockets \ {ME} : StopScreenShare(s) /\ UNCHANGED sideVars
    \/ \E s \in Sockets \ {ME} : Disconnect(s) /\ UNCHANGED sideVars

ShareSpec == Init /\ [][ShareNext]_vars

\* ------------------------------------------------------ the roster mirror
\* The client of socket ME and the room: the server's roster messages reach
\* the client in the order they were sent, and its listeners apply them to
\* this.userStates.  No media is produced here, so no peer has a render slot.

\* The messages that concern the roster.
RosterTypes ==
    {"init", "user-joined", "user-updated", "user-video-toggled",
     "user-audio-toggled", "user-left"}

\* The roster messages among the emissions em that are sent to socket ME.
ToClient(em) ==
    LET sel == SelectSeq(em, LAMBDA e : ME \in e.to /\ e.msg.type \in RosterTypes)
    IN [i \in 1..Len(sel) |-> sel[i].msg]

\* The handler's emissions are put on the client's connection.
Sent == inbox' = inbox \o ToClient(emitted')

\* An entry of this.userStates.
UserState(name, userIndex, videoEnabled, audioEnabled) ==
    [name |-> name, userIndex |-> userIndex, videoEnabled |-> videoEnabled,
     audioEnabled |-> audioEnabled]

\* addUser, on the mirror us.
addUser(us, u) ==
    IF u.socketId = ME THEN us
    ELSE MapSet(us, u.socketId,
                UserState(u.name, u.userIndex, u.videoEnabled, u.audioEnabled))

\* addUser for each user of the snapshot.
RECURSIVE addUsers(_, _)
addUsers(us, snapshot) ==
    IF snapshot = {} THEN us
    ELSE LET u == CHOOSE x \in snapshot : TRUE
         IN addUsers(addUser(us, u), snapshot \ {u})

\* updateUser, on the mirror us: a participant that is not in the mirror is
\* not added.
updateUser(us, u) ==
    IF u.socketId \in DOMAIN us
    THEN [us EXCEPT ![u.socketId] =
             UserState(u.name, u.userIndex, u.videoEnabled, u.audioEnabled)]
    ELSE us

\* updateUserMediaStatus, on the mirror us with the elements els: it returns
\* before it touches the mirror when the participant has no element.
updateUserMediaStatus(us, els, socketId, mediaType, enabled) ==
    IF UserElement(socketId) \notin DOMAIN els THEN us
    ELSE IF socketId \notin DOMAIN us THEN us
    ELSE IF mediaType = "video"
    THEN [us EXCEPT ![socketId].videoEnabled = enabled]
    ELSE [us EXCEPT ![socketId].audioEnabled = enabled]

\* The listener of the roster message at the head of the client's connection
\* runs.
Receive ==
    /\ socketState = "open"
    /\ inbox # <<>>
    /\ inbox' = Tail(inbox)
    /\ LET m == Head(inbox) IN
       /\ CASE m.type = "init" ->
                 /\ userStates' = addUsers(userStates, m.currentUsers)
                 /\ elements' = [e \in DOMAIN elements |->
                        IF e = LocalElement
                        THEN [elements[e] EXCEPT !.label = ScrLabel(m.userIndex)]
                        ELSE elements[e]]
                 /\ UNCHANGED <<peersGrid, presGrid, swapSource, swapTarget,
                                isSwapMode, visuals, consumers, presentations>>
            [] m.type = "user-joined" ->
                 /\ userStates' = addUser(userStates, m)
                 /\ UNCHANGED <<elements, peersGrid, presGrid, swapSource,
                                swapTarget, isSwapMode, visuals, consumers,
                                presentations>>
            [] m.type = "user-updated" ->
                 /\ userStates' = updateUser(userStates, m)
                 /\ elements' = [e \in DOMAIN elements |->
                        IF e = UserElement(m.socketId) /\ m.socketId \in DOMAIN userStates
                        THEN [elements[e] EXCEPT !.label = ScrLabel(m.userIndex)]
                        ELSE elements[e]]
                 /\ UNCHANGED <<peersGrid, presGrid, swapSource, swapTarget,
                                isSwapMode, visuals, consumers, presentations>>
            [] m.type = "user-video-toggled" ->
                 /\ userStates' = updateUserMediaStatus(userStates, elements,
                                      m.socketId, "video", m.enabled)
                 /\ UNCHANGED <<elements, peersGrid, presGrid, swapSource,
                                swapTarget, isSwapMode, visuals, consumers,
                                presentations>>
            [] m.type = "user-audio-toggled" ->
                 /\ userStates' = updateUserMediaStatus(userStates, elements,
                                      m.socketId, "audio", m.enabled)
                 /\ UNCHANGED <<elements, peersGrid, presGrid, swapSource,
                                swapTarget, isSwapMode, visuals, consumers,
                                presentations>>
            [] m.type = "user-left" ->
                 LET shares == removeUserPresentations(m.socketId) IN
                 /\ RemoveElements({UserElement(m.socketId)}
                                   \cup {PresentationElement(p) : p \in shares})
                 /\ consumers' = Restrict(consumers,
                        {p \in DOMAIN consumers :
                            p \notin shares /\ consumers[p].socketId # m.socketId})
                 /\ presentations' =
                        Restrict(presentations, (DOMAIN presentations) \ shares)
                 /\ userStates' = MapDelete(userStates, m.socketId)
       /\ lastHandler' = Handler(m.type, "user",
                                 IF m.type = "init" THEN 0 ELSE m.socketId,
                                 swapSource.id)
    /\ UNCHANGED <<connState, roomVars, pending, nextTransportId, nextProducerId,
                   emitted, resp, firstMsg, updates>>
    /\ UNCHANGED <<socketState, startPc, deviceLoaded, deviceReady,
                   pendingProducers, pendingPresentations, drain, calls,
                   consumerTransports, received, delivered, dispatched,
                   closedProducers, shareVars>>

\* The connections and roster events of a run of the roster mirror.
MaxRosterEvents == 5

\* The client joins; the other sockets connect, rename, toggle and
\* disconnect; the client handles what it is sent.
MirrorNext ==
    \/ StartConference /\ Ran("startConference", "none", 0) /\ UNCHANGED offClient
    \/ DeviceCreated /\ Ran("startConference", "none", 1) /\ UNCHANGED offClient
    \/ DeviceReady /\ Ran("startConference", "none", 2) /\ UNCHANGED offClient
    \/ \E s \in Sockets :
          /\ IdsUsed < MaxRosterEvents
          /\ s = ME => socketState = "open"
          /\ Connection(s) /\ Sent
          /\ UNCHANGED <<updates, clientVars, shareVars>>
    \/ \E s \in Sockets \ {ME}, name \in Names :
          IdsUsed < MaxRosterEvents /\ SetName(s, name) /\ Sent /\ UNCHANGED <<clientVars, shareVars>>
    \/ \E s \in Sockets \ {ME}, enabled \in BOOLEAN :
          IdsUsed < MaxRosterEvents /\ ToggleVideo(s, enabled) /\ Sent /\ UNCHANGED <<clientVars, shareVars>>
    \/ \E s \in Sockets \ {ME}, enabled \in BOOLEAN :
          IdsUsed < MaxRosterEvents /\ ToggleAudio(s, enabled) /\ Sent /\ UNCHANGED <<clientVars, shareVars>>
    \/ \E s \in Sockets \ {ME} :
          IdsUsed < MaxRosterEvents /\ Disconnect(s) /\ Sent /\ UNCHANGED <<updates, clientVars, shareVars>>
    \/ Receive

MirrorSpec == Init /\ [][MirrorNext]_vars

\* ------------------------------------------------------ the join attempt
\* The client of socket ME on its way into the room: its socket connects, the
\* server's snapshot and events reach it while it awaits its local media, and
\* the media is granted or refused; sockets connect and disconnect, the
\* client's own once the client closed it.
JoinNext ==
    \/ StartConference /\ Ran("startConference", "none", 0) /\ UNCHANGED offClient
    \/ DeviceCreated /\ Ran("startConference", "none", 1) /\ UNCHANGED offClient
    \/ LocalMediaDenied /\ Ran("getUserMedia-denied", "none", 0)
          /\ UNCHANGED serverVars
    \/ \E s \in Sockets :
          /\ s = ME => socketState = "open"
          /\ Connection(s) /\ UNCHANGED sideVars
    \/ \E s \in Sockets :
          /\ s = ME => socketState = "closed"
          /\ Disconnect(s) /\ UNCHANGED sideVars
    \/ \E us \in SUBSET Peers, ps \in SUBSET {p \in RemoteProducers : Owner(p) # ME} :
          /\ connState[ME] = "connected"
          /\ RecvInit(us, ps) /\ Ran("init", "none", 0) /\ UNCHANGED offClient
    \/ \E p \in RemoteProducers :
          RecvNewProducer(p) /\ Ran("new-producer", "producer", p)
          /\ UNCHANGED offClient
    \/ \E p \in RemoteProducers :
          RecvNewPresentation(p) /\ Ran("new-presentation", "producer", p)
          /\ UNCHANGED offClient
    \/ \E x \in Peers :
          RecvUserLeft(x) /\ Ran("user-left", "user", x)
          /\ UNCHANGED <<serverVars, shareVars>>

JoinSpec == Init /\ [][JoinNext]_vars

\* ============================================================ properties
UserRange         == 0..(MAX_USERS - 1)
PresentationRange == 0..(MAX_SCREEN_SHARES - 1)

\* Indices held, read off the roster and the directory (not off the pools).
HeldUserIndexes == {users[s].userIndex : s \in DOMAIN users}
FreeUserIndexes == UserRange \ HeldUserIndexes
AllScreenProducers == {p \in DOMAIN producers : producers[p].source = "screen"}
HeldPresentationIndexes ==
    {producers[p].presentationIndex : p \in AllScreenProducers}
FreePresentationIndexes == PresentationRange \ HeldPresentationIndexes

StrictlyAscending(seq) == \A i, j \in 1..Len(seq) : i < j => seq[i] < seq[j]

\* The positions of emissions em whose message has the given type.
Emissions(em, type) == {i \in 1..Len(em) : em[i].msg.type = type}

\* Steps, told by what they change.
Admitted(s)      == s \notin DOMAIN users /\ s \in DOMAIN users'
Refused(s)       == connState[s] = "new" /\ connState'[s] = "rejected"
Disconnected(s)  == s \in DOMAIN users /\ connState'[s] = "disconnected"
Registered(p)    == p \notin DOMAIN producers /\ p \in DOMAIN producers'
ResumedProduce(p) ==
    /\ p \in PendingOf("produce") /\ pending' = pending \ {p}
    /\ nextProducerId' = nextProducerId + 1

\* C1: in both pools acquire returns the smallest index currently free, and
\* none only when no index is free; an index released while it is the
\* smallest free one is what the next acquire returns.
C1_AcquireSmallestFree ==
    [][ /\ \A s \in Sockets :
            /\ Admitted(s) =>
                 /\ FreeUserIndexes # {}
                 /\ users'[s].userIndex = Min(FreeUserIndexes)
            /\ Refused(s) => FreeUserIndexes = {}
            /\ (Disconnected(s) /\ users[s].userIndex = Min(FreeUserIndexes'))
                 => getNextUserIndex' = users[s].userIndex
        /\ \A p \in ProducerIds :
            /\ (Registered(p) /\ producers'[p].source = "screen") =>
                 /\ FreePresentationIndexes # {}
                 /\ producers'[p].presentationIndex = Min(FreePresentationIndexes)
            /\ (p \in AllScreenProducers /\ p \notin DOMAIN producers'
                /\ producers[p].presentationIndex = Min(FreePresentationIndexes'))
                 => getNextPresentationIndex' = producers[p].presentationIndex
        /\ \A q \in pending :
            (ResumedProduce(q) /\ q.source = "screen"
             /\ DOMAIN producers' = DOMAIN producers)
                 => FreePresentationIndexes = {}
      ]_vars

\* Index 0 was released by the first socket and acquired again by a later one,
\* while a higher index stayed held.
C1_Witness ==
    /\ connState[1] = "disconnected"
    /\ \E s, o \in DOMAIN users : users[s].userIndex = 0 /\ users[o].userIndex = 1
    /\ \E p \in AllScreenProducers : p > 1 /\ producers[p].presentationIndex = 0

\* C2: in every reachable state, for each pool, the free list and the held
\* indices are disjoint and together the full range, the free list is
\* strictly ascending, and no index is held twice.
C2_PoolPartition ==
    /\ Range(availableIndexes) \cap HeldUserIndexes = {}
    /\ Range(availableIndexes) \cup HeldUserIndexes = UserRange
    /\ StrictlyAscending(availableIndexes)
    /\ \A s, o \in DOMAIN users : users[s].userIndex = users[o].userIndex => s = o
    /\ Range(availablePresentationIndexes) \cap HeldPresentationIndexes = {}
    /\ Range(availablePresentationIndexes) \cup HeldPresentationIndexes
         = PresentationRange
    /\ StrictlyAscending(availablePresentationIndexes)
    /\ \A p, q \in AllScreenProducers :
         producers[p].presentationIndex = producers[q].presentationIndex => p = q

\* Both pools have a hole below a held index: slot 0 is free again while slot
\* 1 is held, for users and for presentations.
C2_Witness ==
    /\ availableIndexes = <<0, 2>>
    /\ availablePresentationIndexes = <<0>>
    /\ HeldPresentationIndexes = {1}

\* C3: under any interleaving, with createProducer suspended at the media
\* engine, the participants never exceed MaxUsers and the registered screen
\* producers never exceed MaxScreenShares.
C3_CapacityNeverExceeded ==
    /\ Cardinality(DOMAIN users) <= MAX_USERS
    /\ Cardinality(screenProducers) <= MAX_SCREEN_SHARES
    /\ Cardinality(AllScreenProducers) <= MAX_SCREEN_SHARES

\* A continuation that passed the first capacity check was refused by the
\* check made when it resumed.
C3_Witness ==
    /\ resp = Response("produce", "resume", 403)
    /\ Cardinality(AllScreenProducers) = MAX_SCREEN_SHARES

\* C4: a connection arriving while MaxUsers participants are admitted is
\* refused with room-full and closed, changes nothing of the room and
\* broadcasts no join-delta or room-status; a connection arriving while a slot
\* is free is admitted to the smallest free slot.
C4_RoomFullNoMutation ==
    [][ \A s \in Sockets :
          (connState[s] = "new" /\ connState'[s] # "new") =>
            IF Cardinality(DOMAIN users) = MAX_USERS
            THEN /\ connState'[s] = "rejected"
                 /\ resp' = Response("connection", "event", 403)
                 /\ UNCHANGED roomVars
                 /\ emitted' = <<[to |-> {s}, msg |-> [type |-> "room-full"]]>>
            ELSE /\ connState'[s] = "connected"
                 /\ s \in DOMAIN users'
                 /\ users'[s].userIndex = Min(FreeUserIndexes)
      ]_vars

\* MaxUsers = 3: slots 0, 1, 2 were given, the 4th connection was refused,
\* the holder of slot 0 left and the next connection got slot 0.
C4_Witness ==
    /\ connState[1] = "disconnected"
    /\ connState[4] = "rejected"
    /\ DOMAIN users = {2, 3, 5}
    /\ users[2].userIndex = 1 /\ users[3].userIndex = 2 /\ users[5].userIndex = 0

\* C5: a disconnect emits one user-left to the remaining participants and
\* exactly one presentation-ended for each screen producer it destroyed.
C5_DisconnectEndsPresentations ==
    [][ \A s \in Sockets :
          Disconnected(s) =>
            /\ \E i \in Emissions(emitted', "user-left") :
                 /\ emitted'[i].to = DOMAIN users'
                 /\ Emissions(emitted', "user-left") = {i}
            /\ \A p \in ScreenProducersOf(producers, s) :
                 Cardinality({i \in Emissions(emitted', "presentation-ended") :
                                emitted'[i].msg.producerId = p}) = 1
      ]_vars

\* C6: right after a disconnect the participant is off the roster, its slot
\* and the presentation slots of its screen producers are free, none of its
\* transports or producers remains, and everything else is as it was.
C6_DisconnectFrame ==
    [][ \A s \in Sockets :
          Disconnected(s) =>
            /\ s \notin DOMAIN users'
            /\ users[s].userIndex \in Range(availableIndexes')
            /\ TransportsOf(transports', s) = {}
            /\ ProducersOf(producers', s) = {}
            /\ \A p \in ScreenProducersOf(producers, s) :
                 producers[p].presentationIndex
                    \in Range(availablePresentationIndexes')
            /\ DOMAIN users' = (DOMAIN users) \ {s}
            /\ \A o \in DOMAIN users' : users'[o] = users[o]
            /\ DOMAIN transports' = (DOMAIN transports) \ TransportsOf(transports, s)
            /\ \A t \in DOMAIN transports' : transports'[t] = transports[t]
            /\ DOMAIN producers' = (DOMAIN producers) \ ProducersOf(producers, s)
            /\ \A p \in DOMAIN producers' : producers'[p] = producers[p]
            /\ screenProducers' = screenProducers \ ScreenProducersOf(producers, s)
      ]_vars

\* A disconnect was just handled; the transport and the producer of the one
\* who left are gone, the transport and the screen producer of one who stays
\* are still there.
C6_Witness ==
    /\ Emissions(emitted, "user-left") # {}
    /\ nextTransportId = 3 /\ nextProducerId = 3
    /\ \E o \in DOMAIN users :
         /\ Cardinality(TransportsOf(transports, o)) = 1
         /\ Cardinality(ScreenProducersOf(producers, o)) = 1
    /\ Cardinality(DOMAIN transports) = 1
    /\ Cardinality(DOMAIN producers) = 1

\* C7: a registered screen producer is announced with new-presentation,
\* carrying its presentation slot, to all participants, its owner included; a
\* registered camera or microphone producer is announced with new-producer to
\* all participants but its owner.
C7_AnnouncementAudience ==
    [][ \A p \in ProducerIds :
          Registered(p) =>
            IF producers'[p].source = "screen"
            THEN /\ Emissions(emitted', "new-producer") = {}
                 /\ \E i \in Emissions(emitted', "new-presentation") :
                      /\ Emissions(emitted', "new-presentation") = {i}
                      /\ emitted'[i].msg.id = p
                      /\ emitted'[i].msg.presentationIndex
                            = producers'[p].presentationIndex
                      /\ emitted'[i].to = DOMAIN users'
            ELSE /\ Emissions(emitted', "new-presentation") = {}
                 /\ \E i \in Emissions(emitted', "new-producer") :
                      /\ Emissions(emitted', "new-producer") = {i}
                      /\ emitted'[i].msg.id = p
                      /\ emitted'[i].to = (DOMAIN users') \ {producers'[p].socketId}
                 /\ \A i \in 1..Len(emitted') :
                      producers'[p].socketId \notin emitted'[i].to
      ]_vars

\* A screen share was just announced to its owner and to another participant.
C7_Witness ==
    \E i \in Emissions(emitted, "new-presentation") :
        /\ emitted[i].msg.socketId \in emitted[i].to
        /\ Cardinality(emitted[i].to) >= 2
        /\ emitted[i].msg.presentationIndex = 1

\* C8: createProducer with source=screen fails with PresentationFull, at the
\* first check or at the check after the media-engine call, exactly when no
\* presentation slot is free; it then broadcasts nothing and leaves the
\* presentation pool, the directory and the screen-producer set unchanged;
\* otherwise it gets the smallest free slot.
C8_PresentationFullNoMutation ==
    [][ /\ resp' \in {Response("produce", "request", 403),
                      Response("produce", "resume", 403)}
            => /\ UNCHANGED <<availablePresentationIndexes, producers,
                              screenProducers, users, availableIndexes, transports>>
               /\ emitted' = <<>>
               /\ FreePresentationIndexes = {}
        /\ \A q \in pending :
            (ResumedProduce(q) /\ q.source = "screen") =>
               IF FreePresentationIndexes = {}
               THEN resp' = Response("produce", "resume", 403)
               ELSE /\ resp' = NoError
                    /\ Registered(nextProducerId)
                    /\ producers'[nextProducerId].presentationIndex
                          = Min(FreePresentationIndexes)
      ]_vars

\* MaxScreenShares = 2: two participants hold slots 0 and 1 and a further
\* screen share was just refused at the first check.
C8_Witness ==
    /\ resp = Response("produce", "request", 403)
    /\ \E p, q \in AllScreenProducers :
         /\ producers[p].presentationIndex = 0
         /\ producers[q].presentationIndex = 1
         /\ producers[p].socketId # producers[q].socketId

\* C9: whenever presentation-ended is broadcast for a producer, that producer
\* has left the directory and its presentation slot is back in the free pool,
\* held by no producer.
C9_SlotFreeBeforeEndDelta ==
    [][ \A i \in Emissions(emitted', "presentation-ended") :
          LET p == emitted'[i].msg.producerId IN
          p \in DOMAIN producers =>
            /\ p \notin DOMAIN producers'
            /\ producers[p].presentationIndex
                  \in Range(availablePresentationIndexes')
            /\ \A q \in DOMAIN producers' :
                  producers'[q].presentationIndex # producers[p].presentationIndex
      ]_vars

\* An end-delta was just broadcast while another participant's screen share
\* is suspended at the media engine, about to take a slot.
C9_Witness ==
    /\ Emissions(emitted, "presentation-ended") # {}
    /\ \E q \in PendingOf("produce") : q.source = "screen"
    /\ availablePresentationIndexes = <<0>>

\* C10: the init snapshot is the first message sent to an admitted
\* connection, and nothing is sent to a connection not opened yet.
C10_SnapshotFirst ==
    /\ \A s \in Sockets :
         /\ connState[s] \in {"connected", "disconnected"} => firstMsg[s] = "init"
         /\ connState[s] = "rejected" => firstMsg[s] = "room-full"
         /\ connState[s] = "new" => firstMsg[s] = "none"
    /\ \A i \in 1..Len(emitted) : \A s \in emitted[i].to : connState[s] # "new"

\* A live delta was just sent to a participant that got its snapshot first.
C10_Witness ==
    \E s \in DOMAIN users, i \in 1..Len(emitted) :
        /\ s \in emitted[i].to
        /\ emitted[i].msg.type \in {"user-joined", "new-presentation", "user-left"}
        /\ firstMsg[s] = "init"

\* C11: an admission sends the new connection exactly one snapshot, with its
\* own slot, the roster of the other participants (itself not in it) and every
\* producer of the directory, and sends exactly one join-delta with the new
\* slot to every other participant and none to the new connection.
C11_AdmitSnapshotAndJoin ==
    [][ \A s \in Sockets :
          Admitted(s) =>
            /\ \E i \in Emissions(emitted', "init") :
                 /\ Emissions(emitted', "init") = {i}
                 /\ emitted'[i].to = {s}
                 /\ emitted'[i].msg.userIndex = users'[s].userIndex
                 /\ {u.socketId : u \in emitted'[i].msg.currentUsers} = DOMAIN users
                 /\ s \notin {u.socketId : u \in emitted'[i].msg.currentUsers}
                 /\ \A u \in emitted'[i].msg.currentUsers :
                      /\ u.name = users[u.socketId].name
                      /\ u.userIndex = users[u.socketId].userIndex
                      /\ u.videoEnabled = users[u.socketId].videoEnabled
                      /\ u.audioEnabled = users[u.socketId].audioEnabled
                 /\ Cardinality(emitted'[i].msg.currentUsers)
                      = Cardinality(DOMAIN users)
                 /\ {q.id : q \in emitted'[i].msg.currentProducers} = DOMAIN producers
                 /\ Cardinality(emitted'[i].msg.currentProducers)
                      = Cardinality(DOMAIN producers)
                 /\ \A q \in emitted'[i].msg.currentProducers :
                      /\ q.socketId = producers[q.id].socketId
                      /\ q.source = producers[q.id].source
                      /\ q.isScreen = (producers[q.id].source = "screen")
                      /\ q.presentationIndex = producers[q.id].presentationIndex
            /\ \E j \in Emissions(emitted', "user-joined") :
                 /\ Emissions(emitted', "user-joined") = {j}
                 /\ emitted'[j].to = DOMAIN users
                 /\ s \notin emitted'[j].to
                 /\ emitted'[j].msg.socketId = s
                 /\ emitted'[j].msg.userIndex = users'[s].userIndex
      ]_vars

\* A connection was just admitted to a room with another participant and a
\* producer of a participant that has left: its snapshot lists both.
C11_Witness ==
    \E i \in Emissions(emitted, "init") :
        /\ Cardinality(emitted[i].msg.currentUsers) >= 1
        /\ \E q \in emitted[i].msg.currentProducers : q.isScreen
        /\ \E q \in emitted[i].msg.currentProducers : ~q.isScreen
        /\ emitted[i].msg.userIndex = 0
        /\ \E j \in Emissions(emitted, "user-joined") : emitted[j].to # {}

\* C13: stop-screen-share by participant s removes exactly the screen
\* producers of s from the directory, frees exactly their presentation slots
\* and broadcasts one presentation-ended per removed producer to all
\* participants; s stays admitted with its slot, and its camera producers, its
\* transports and everything of every other participant are unchanged.
C13_StopSharingFrame ==
    [][ \A s \in Sockets :
          StopScreenShare(s) =>
            LET gone == ScreenProducersOf(producers, s) IN
            /\ DOMAIN producers' = (DOMAIN producers) \ gone
            /\ \A p \in DOMAIN producers' : producers'[p] = producers[p]
            /\ screenProducers' = screenProducers \ gone
            /\ Range(availablePresentationIndexes')
                 = Range(availablePresentationIndexes)
                   \cup {producers[p].presentationIndex : p \in gone}
            /\ Len(availablePresentationIndexes')
                 = Len(availablePresentationIndexes) + Cardinality(gone)
            /\ StrictlyAscending(availablePresentationIndexes')
            /\ \A p \in gone :
                 \E i \in Emissions(emitted', "presentation-ended") :
                    /\ emitted'[i].msg.producerId = p
                    /\ emitted'[i].to = DOMAIN users
            /\ Cardinality(Emissions(emitted', "presentation-ended"))
                 = Cardinality(gone)
            /\ UNCHANGED <<users, availableIndexes, transports, connState>>
      ]_vars

\* A participant with a camera producer and a screen producer just stopped
\* sharing while another participant shares: its camera producer and the
\* other's screen producer are in the directory, its screen producer is not.
C13_Witness ==
    /\ Emissions(emitted, "presentation-ended") # {}
    /\ \E i \in Emissions(emitted, "presentation-ended") :
         LET s == emitted[i].msg.socketId IN
         /\ s \in DOMAIN users
         /\ \E p \in ProducersOf(producers, s) : producers[p].source = "camera"
         /\ ScreenProducersOf(producers, s) = {}
         /\ \E o \in DOMAIN users : o # s /\ ScreenProducersOf(producers, o) # {}

\* C12: set-name, toggle-video and toggle-audio of an admitted participant
\* change only that participant's name or flag (its slot, every other
\* participant and the rest of the room are unchanged), and the update or
\* toggle delta goes to every other participant and never to the originator.
C12_RenameToggleFrame ==
    [][ updates' # updates =>
          \E i \in 1..Len(emitted') :
            LET m == emitted'[i].msg
                s == m.socketId
                deltas == {"user-updated", "user-video-toggled", "user-audio-toggled"}
            IN
            /\ m.type \in deltas
            /\ \A j \in 1..Len(emitted') : emitted'[j].msg.type \in deltas => j = i
            /\ s \in DOMAIN users
            /\ emitted'[i].to = (DOMAIN users) \ {s}
            /\ DOMAIN users' = DOMAIN users
            /\ \A o \in (DOMAIN users) \ {s} : users'[o] = users[o]
            /\ users'[s].userIndex = users[s].userIndex
            /\ m.type = "user-updated" =>
                 /\ users'[s] = [users[s] EXCEPT !.name = m.name]
                 /\ m.userIndex = users[s].userIndex
            /\ m.type = "user-video-toggled" =>
                 users'[s] = [users[s] EXCEPT !.videoEnabled = m.enabled]
            /\ m.type = "user-audio-toggled" =>
                 users'[s] = [users[s] EXCEPT !.audioEnabled = m.enabled]
            /\ UNCHANGED <<availableIndexes, transports, producers, screenProducers,
                           availablePresentationIndexes, connState, pending>>
      ]_vars

\* A participant just switched its video off while another participant, who
\* has set its name and switched its audio off, got the toggle delta.
C12_Witness ==
    /\ Len(emitted) = 1
    /\ emitted[1].msg.type = "user-video-toggled"
    /\ ~users[emitted[1].msg.socketId].videoEnabled
    /\ \E o \in emitted[1].to :
         /\ users[o].name = "Ann"
         /\ ~users[o].audioEnabled
         /\ users[o].videoEnabled

\* How often producer p occurs in a sequence of ids, and the ids of a sequence
\* of consumeProducer calls.
Count(seq, p) == Cardinality({i \in 1..Len(seq) : seq[i] = p})
Ids(log) == [i \in 1..Len(log) |-> log[i].id]
DrainCalls(log) == SelectSeq(log, LAMBDA d : d.via = "drain")

\* C14: on a client that does not disconnect, every resource the init
\* snapshot or a live creation event delivers is handed to consumeProducer
\* exactly once: never twice, and, once the device is ready and the pending
\* queues were processed, never less, whenever the snapshot and the events
\* arrive.
C14_EveryResourceDispatchedOnce ==
    socketState = "open" =>
        /\ \A p \in RemoteProducers :
              Count(Ids(dispatched), p) <= Count(delivered, p)
        /\ startPc = "joined" =>
              \A p \in RemoteProducers :
                 Count(Ids(dispatched), p) = Count(delivered, p)

\* C15: consumeProducer is never called while deviceReady is false; a live
\* creation event is appended to its queue iff deviceReady is false when it
\* arrives and is else dispatched at once; when processPendingProducers ends
\* it has dispatched the producer queue in arrival order, then the
\* presentation queue in arrival order, and both queues are empty.
C15_BufferThenDrainInOrder ==
    [][ /\ \A i \in 1..Len(dispatched') : dispatched'[i].ready
        /\ (received' = received + 1 /\ received >= 1
             /\ Len(delivered') = Len(delivered) + 1) =>
              LET p == delivered'[Len(delivered')] IN
              IF ~deviceReady
              THEN /\ dispatched' = dispatched
                   /\ IF IsScreen(p)
                      THEN /\ pendingPresentations' = Append(pendingPresentations, p)
                           /\ pendingProducers' = pendingProducers
                      ELSE /\ pendingProducers' = Append(pendingProducers, p)
                           /\ pendingPresentations' = pendingPresentations
              ELSE /\ Len(dispatched') = Len(dispatched) + 1
                   /\ dispatched'[Len(dispatched')].id = p
                   /\ UNCHANGED <<pendingProducers, pendingPresentations>>
        /\ (startPc # "joined" /\ startPc' = "joined" /\ socketState = "open") =>
              /\ Ids(DrainCalls(dispatched')) = pendingProducers \o pendingPresentations
              /\ pendingProducers' = <<>>
              /\ pendingPresentations' = <<>>
      ]_vars

\* The render slots that show producer p.
SlotsOf(p) == {e \in DOMAIN elements : elements[e].video = p}

\* A producer id has at most one render slot, and exactly one when it has a
\* consumer entry.
OneRenderSlot ==
    \A p \in RemoteProducers :
        /\ Cardinality(SlotsOf(p)) <= 1
        /\ p \in DOMAIN consumers => Cardinality(SlotsOf(p)) = 1

\* The step is a live creation event that calls consumeProducer for p.
LiveCall(p) ==
    /\ lastHandler'.op \in {"new-producer", "new-presentation"}
    /\ Len(dispatched') = Len(dispatched) + 1
    /\ dispatched'[Len(dispatched')].id = p

\* C16: consumeProducer is idempotent per producer id: a call for an id that
\* has a consumer entry changes nothing (no call is started, no map and no
\* element changes), no call is ever started for such an id, and in every
\* state a producer id has at most one render slot, which it has when it has
\* a consumer entry.
C16_ConsumeIdempotent ==
    [][ /\ \A p \in DOMAIN consumers :
              LiveCall(p) =>
                 UNCHANGED <<calls, consumers, consumerTransports, presentations,
                             userStates, elements, peersGrid, presGrid>>
        /\ \A c \in calls' \ calls :
              c.pc = "transport" => c.id \notin DOMAIN consumers'
        /\ OneRenderSlot'
      ]_vars

\* A second call was made for a producer that was consumed, and left its one
\* entry and its one slot.
C16_Witness ==
    /\ socketState = "open"
    /\ lastHandler.op = "new-producer"
    /\ LET p == lastHandler.arg.n IN
       /\ Count(Ids(dispatched), p) = 2
       /\ dispatched[Len(dispatched)].id = p
       /\ p \in DOMAIN consumers
       /\ Cardinality(SlotsOf(p)) = 1
       /\ calls = {}

\* The client's own cameras and its own screen shares among the producers.
OwnCameras == {p \in RemoteProducers : Owner(p) = ME /\ ~IsScreen(p)}
OwnScreens == {p \in RemoteProducers : Owner(p) = ME /\ IsScreen(p)}

\* No call, no consumer entry and no render slot is of an own camera, and a
\* consumed own screen share is shown by its presentation element, labelled
\* with the presentation index the server gave it.
OwnMediaRendering ==
    /\ \A c \in calls : c.id \notin OwnCameras
    /\ \A p \in DOMAIN consumers :
          ~(consumers[p].socketId = ME /\ ~consumers[p].isPresentation)
    /\ \A p \in OwnCameras : p \notin DOMAIN consumers /\ SlotsOf(p) = {}
    /\ \A p \in OwnScreens \cap DOMAIN consumers :
          /\ SlotsOf(p) = {PresentationElement(p)}
          /\ elements[PresentationElement(p)].label = PrLabel(PresentationIndexOf(p))
          /\ p \in DOMAIN presentations
          /\ presentations[p].presentationIndex = PresentationIndexOf(p)

\* C17: the client never consumes or renders a camera producer it owns (a
\* call of consumeProducer for one starts nothing), and it does consume its
\* own screen share (a call for one that is not consumed yet is started) and
\* renders it in a presentation slot labelled with the server's presentation
\* index.
C17_OwnCameraSkippedOwnScreenRendered ==
    [][ /\ OwnMediaRendering'
        /\ \A p \in OwnCameras :
              LiveCall(p) =>
                 UNCHANGED <<calls, consumers, consumerTransports, presentations,
                             userStates, elements, peersGrid, presGrid>>
        /\ \A p \in OwnScreens \ DOMAIN consumers :
              LiveCall(p) =>
                 \E c \in calls' \ calls :
                    c.id = p /\ c.isPresentation /\ c.pc = "transport"
      ]_vars

\* The client's own camera was announced to it and is neither consumed nor
\* shown, and its own screen share is consumed and shown as pr1.
C17_Witness ==
    /\ socketState = "open"
    /\ \E i \in 1..Len(dispatched) : dispatched[i].id \in OwnCameras
    /\ \E p \in OwnScreens :
          /\ p \in DOMAIN consumers
          /\ consumers[p].socketId = ME
          /\ PresentationElement(p) \in Range(presGrid)
          /\ elements[PresentationElement(p)] = [label |-> PrLabel(1), video |-> p]
    /\ calls = {}

\* The step is the catch block of call c of consumeProducer.
Caught(c) == lastHandler'.op = "catch" /\ lastHandler'.arg.n = c.n

\* C18: when a call of consumeProducer fails, at whichever of its awaits, it
\* leaves no render slot and no entry: the consumer map, the presentation
\* mirror, the user mirror and the elements are as they were, and the
\* receive-transport map does not hold a transport of the call.
C18_FailedConsumeLeavesNothing ==
    [][ \A c \in calls :
           Caught(c) =>
              /\ c.n \notin consumerTransports'
              /\ UNCHANGED <<consumers, presentations, userStates, elements,
                             peersGrid, presGrid>>
      ]_vars

\* What the client holds of producer p: its consumer entry, its presentation
\* record and its render slots, each with its content.
HeldOf(p) ==
    [consumer |-> IF p \in DOMAIN consumers THEN {consumers[p]} ELSE {},
     record   |-> IF p \in DOMAIN presentations THEN {presentations[p]} ELSE {},
     slots    |-> {<<e, elements[e]>> : e \in SlotsOf(p)}]

Nothing == [consumer |-> {}, record |-> {}, slots |-> {}]

\* The roster entry and the user element of socket x.
HeldOfUser(x) ==
    [state |-> IF x \in DOMAIN userStates THEN {userStates[x]} ELSE {},
     slot  |-> IF UserElement(x) \in DOMAIN elements
               THEN {elements[UserElement(x)]} ELSE {}]

\* C19: after presentation-ended for producer p the client holds no render
\* slot, no consumer entry and no presentation record of p; after user-left
\* for x it holds no render slot, no consumer entry, no presentation record
\* and no roster entry of x or of a producer of x; what it holds of the other
\* producers and users is as before.
C19_RemovalIsCompleteAndLocal ==
    [][ /\ \A p \in RemoteProducers :
              (lastHandler'.op = "presentation-ended" /\ lastHandler'.arg.n = p) =>
                 /\ HeldOf(p)' = Nothing
                 /\ PresentationElement(p) \notin DOMAIN elements'
                 /\ \A q \in RemoteProducers \ {p} : HeldOf(q)' = HeldOf(q)
                 /\ \A y \in Peers : HeldOfUser(y)' = HeldOfUser(y)
        /\ \A x \in Peers :
              (lastHandler'.op = "user-left" /\ lastHandler'.arg.n = x) =>
                 /\ HeldOfUser(x)' = [state |-> {}, slot |-> {}]
                 /\ \A p \in RemoteProducers :
                       IF Owner(p) = x
                       THEN /\ HeldOf(p)' = Nothing
                            /\ PresentationElement(p) \notin DOMAIN elements'
                       ELSE HeldOf(p)' = HeldOf(p)
                 /\ \A y \in Peers \ {x} : HeldOfUser(y)' = HeldOfUser(y)
                 /\ LocalElement \in DOMAIN elements
                       => elements'[LocalElement] = elements[LocalElement]
      ]_vars

\* The peer has left after the client was given resources of it, and the
\* client still shows its own screen share.
C19_Witness ==
    /\ lastHandler.op = "user-left"
    /\ \E x \in Peers :
          /\ lastHandler.arg.n = x
          /\ \E i \in 1..Len(dispatched) : Owner(dispatched[i].id) = x
          /\ x \notin DOMAIN userStates
    /\ calls = {}
    /\ Cardinality(consumerTransports) >= 2
    /\ \E p \in OwnScreens :
          p \in DOMAIN consumers /\ PresentationElement(p) \in Range(presGrid)

\* The step is selectForSwap for the item that is the selected source.
SelectAgain ==
    /\ lastHandler'.op = "selectForSwap"
    /\ swapSource # NoSelection
    /\ lastHandler'.arg = swapSource.id

\* C20 as stated: with source A selected, selecting A again is a no-op: A
\* stays the source, the engine stays in swap mode and no render slot moves.
C20_ReselectIsNoOp ==
    [][ SelectAgain =>
           /\ swapSource' = swapSource
           /\ isSwapMode'
           /\ UNCHANGED <<elements, peersGrid, presGrid>>
      ]_vars

\* C20: with source A selected, selecting A again cancels the swap: the
\* engine is idle again, with no source and no target, and no render slot has
\* moved.
C20_ReselectCancels ==
    [][ SelectAgain =>
           /\ swapSource' = NoSelection
           /\ swapTarget' = NoSelection
           /\ ~isSwapMode'
           /\ UNCHANGED <<elements, peersGrid, presGrid>>
      ]_vars

\* The user selected the source a second time, with another video in the
\* grid, and the engine is idle.
C20_Witness ==
    /\ lastHandler.op = "selectForSwap"
    /\ lastHandler.arg = lastHandler.source
    /\ lastHandler.arg.type = "user"
    /\ swapSource = NoSelection
    /\ ~isSwapMode
    /\ Len(peersGrid) >= 2

\* The step performs the swap of source A with target B: A is the selected
\* source and B is selected or clicked.
SwapStep(A, B) ==
    /\ lastHandler'.op \in {"selectForSwap", "handleVideoGridClick"}
    /\ swapSource # NoSelection
    /\ swapSource.id = A
    /\ lastHandler'.arg = B

\* The arrangement engine is idle.
Idle == swapSource = NoSelection /\ swapTarget = NoSelection /\ ~isSwapMode

\* Elements a and b are children of one grid.
SameParent(a, b) ==
    \/ {a, b} \subseteq Range(peersGrid)
    \/ {a, b} \subseteq Range(presGrid)

\* C21: selecting A and then a different B whose slots are children of one
\* grid exchanges the positions of A and B in that grid, whichever comes
\* first and whatever lies between them: every other child keeps its
\* position, the other grid is unchanged, no marker element is left, and the
\* engine is idle.
C21_SameParentSwapExchanges ==
    [][ \A A, B \in DOMAIN elements :
           (SwapStep(A, B) /\ A # B /\ SameParent(A, B)) =>
              /\ peersGrid' = Exchange(peersGrid, A, B)
              /\ presGrid' = Exchange(presGrid, A, B)
              /\ TempMarker \notin Range(peersGrid') \cup Range(presGrid')
              /\ Idle'
      ]_vars

\* The last and the first of three children were exchanged, the source being
\* the later one, and the child between them kept its place.
C21_Witness ==
    /\ lastHandler.op = "handleVideoGridClick"
    /\ lastHandler.source = UserElement(3)
    /\ lastHandler.arg = LocalElement
    /\ peersGrid = <<UserElement(3), UserElement(2), LocalElement>>
    /\ presGrid = <<PresentationElement(2), PresentationElement(3)>>
    /\ Idle

\* C22: selecting A and then B whose slots are children of different grids
\* ends with A a child of B's former grid and B a child of A's former grid;
\* each grid keeps its number of children, no other child changes grid, and
\* the engine is idle.
C22_CrossParentSwapRelocates ==
    [][ \A A, B \in DOMAIN elements :
           (SwapStep(A, B) /\ A # B /\ ~SameParent(A, B)) =>
              /\ (A \in Range(peersGrid)) = (B \in Range(peersGrid'))
              /\ (A \in Range(presGrid)) = (B \in Range(presGrid'))
              /\ (B \in Range(peersGrid)) = (A \in Range(peersGrid'))
              /\ (B \in Range(presGrid)) = (A \in Range(presGrid'))
              /\ Len(peersGrid') = Len(peersGrid)
              /\ Len(presGrid') = Len(presGrid)
              /\ Range(peersGrid') \ {A, B} = Range(peersGrid) \ {A, B}
              /\ Range(presGrid') \ {A, B} = Range(presGrid) \ {A, B}
              /\ Cardinality(Range(peersGrid') \cup Range(presGrid'))
                    = Len(peersGrid') + Len(presGrid')
              /\ Idle'
      ]_vars

\* The local video and the first screen share were swapped across the grids.
C22_Witness ==
    /\ lastHandler.op = "handleVideoGridClick"
    /\ lastHandler.source = LocalElement
    /\ lastHandler.arg = PresentationElement(2)
    /\ peersGrid = <<UserElement(2), UserElement(3), PresentationElement(2)>>
    /\ presGrid = <<PresentationElement(3), LocalElement>>
    /\ Idle

\* The render slots with the label screen, and the label of target B of the
\* step: the label of its switcher item, or of the clicked element.
Labelled(screen) == {e \in DOMAIN elements : elements[e].label = screen}

TargetScreen(B) ==
    IF lastHandler'.op = "selectForSwap"
    THEN (CHOOSE item \in SwitcherItems : item.id = B).screen
    ELSE elements[B].label

\* Slots a and b have exchanged their places: their positions in one grid, or
\* their grids.
Swapped(a, b) ==
    IF SameParent(a, b)
    THEN /\ peersGrid' = Exchange(peersGrid, a, b)
         /\ presGrid' = Exchange(presGrid, a, b)
    ELSE /\ (a \in Range(peersGrid)) = (b \in Range(peersGrid'))
         /\ (b \in Range(peersGrid)) = (a \in Range(peersGrid'))
         /\ (a \in Range(presGrid)) = (b \in Range(presGrid'))
         /\ (b \in Range(presGrid)) = (a \in Range(presGrid'))

\* No element has a swap class.
NoHighlight ==
    \A x \in visuals.styled : x[2] \notin {"swap-source", "swap-target"}

\* C23: a swap is atomic.  When the swap of source A with another target B is
\* performed and no render slot has the label of A, or none has the label of
\* B, the engine goes idle, no slot changes its grid or its position and the
\* source highlight is cleared; else the two slots end swapped, and the
\* engine idle.
C23_SwapIsAtomic ==
    [][ \A A, B \in {item.id : item \in SwitcherItems} \cup DOMAIN elements :
           (SwapStep(A, B) /\ A # B) =>
              /\ Idle'
              /\ NoHighlight'
              /\ UNCHANGED elements
              /\ IF Labelled(swapSource.screen) = {}
                      \/ Labelled(TargetScreen(B)) = {}
                 THEN UNCHANGED <<peersGrid, presGrid>>
                 ELSE \E a \in Labelled(swapSource.screen),
                         b \in Labelled(TargetScreen(B)) : Swapped(a, b)
      ]_vars

\* The local video was the source and a peer in the roster with no render
\* slot was selected as the target: the swap was aborted.
C23_Witness ==
    /\ lastHandler.op = "selectForSwap"
    /\ lastHandler.source = LocalElement
    /\ lastHandler.arg = UserElement(3)
    /\ UserElement(3) \notin DOMAIN elements
    /\ 3 \in DOMAIN userStates
    /\ peersGrid = <<LocalElement, UserElement(2)>>
    /\ presGrid = <<PresentationElement(2), PresentationElement(3)>>
    /\ Idle
    /\ visuals = NoVisuals

\* C24: every failure of a swap, a source or a target with no render slot of
\* its label or a target that is the source itself, reverts the engine to
\* idle and leaves every render slot where it was.
C24_FailureRevertsToIdle ==
    [][ \A A, B \in {item.id : item \in SwitcherItems} \cup DOMAIN elements :
           (/\ SwapStep(A, B)
            /\ \/ A = B
               \/ Labelled(swapSource.screen) = {}
               \/ Labelled(TargetScreen(B)) = {}) =>
              /\ Idle'
              /\ UNCHANGED <<elements, peersGrid, presGrid>>
      ]_vars

\* A peer of the roster with no render slot was selected as the source and a
\* video was clicked: the swap was aborted.
C24_Witness ==
    /\ lastHandler.op = "handleVideoGridClick"
    /\ lastHandler.source = UserElement(3)
    /\ lastHandler.arg = PresentationElement(3)
    /\ UserElement(3) \notin DOMAIN elements
    /\ peersGrid = <<LocalElement, UserElement(2)>>
    /\ presGrid = <<PresentationElement(2), PresentationElement(3)>>
    /\ Idle

\* No render slot has a swap class, a swap cursor or the swap opacity, the
\* banner is hidden and the body is not in swap mode.
NoSwapVisuals ==
    /\ visuals.styled = {}
    /\ ~visuals.banner
    /\ ~visuals.body

\* C25: whenever a transition ends with the engine idle (a swap completed or
\* aborted, a cancel, the removal of the selected slot, a disconnect), no
\* render slot carries a swap-source or swap-target class or a swap cursor or
\* opacity and the banner is hidden, and this stays so while the engine is
\* idle.
C25_IdleHasNoSwapVisuals ==
    [][ (Idle' /\ (~Idle \/ NoSwapVisuals)) => NoSwapVisuals' ]_vars

\* The connection was lost while a source with a render slot was selected.
C25_Witness ==
    /\ lastHandler.op = "disconnect"
    /\ lastHandler.source = UserElement(2)
    /\ Idle
    /\ NoSwapVisuals
    /\ elements # <<>>

\* The render slots of the grid.
GridIds == Range(peersGrid) \cup Range(presGrid)

\* C26: no operation of the arrangement engine (a selection, a swap, an
\* aborted swap, a cancel) creates or destroys a render slot or changes the
\* id or the label of one: the slots of the grid, each with its id, its label
\* and its video, are the same before and after, and none is there twice.
C26_ArrangementKeepsSlots ==
    [][ lastHandler'.op \in {"selectForSwap", "handleVideoGridClick", "cancelSwap"} =>
           /\ GridIds' = GridIds
           /\ Len(peersGrid') + Len(presGrid') = Len(peersGrid) + Len(presGrid)
           /\ GridIds' \subseteq DOMAIN elements'
           /\ \A e \in GridIds : elements'[e] = elements[e]
           /\ DOMAIN elements' = DOMAIN elements
      ]_vars

\* A swap across the grids was completed and a later selection cancelled, and
\* the five slots of the full room are in the grid.
C26_Witness ==
    /\ lastHandler.op = "cancelSwap"
    /\ lastHandler.source = UserElement(3)
    /\ PresentationElement(3) \in Range(peersGrid)
    /\ LocalElement \in Range(presGrid)
    /\ Cardinality(GridIds) = 5
    /\ Len(peersGrid) + Len(presGrid) = 5
    /\ \A e \in GridIds :
          elements[e].label = IF e.type = "presentation"
                              THEN PrLabel(PresentationIndexOf(e.n))
                              ELSE ScrLabel(UserIndexOf(IF e = LocalElement THEN ME ELSE e.n))

\* A set of indices with no hole: the k smallest indices, for k its size.
Compact(S) == S = 0..(Cardinality(S) - 1)

\* The original wording of C29: with k participants admitted, the assigned
\* user slots are the k smallest indices.
C29_AssignedAreSmallest == Compact(HeldUserIndexes)

\* C29: for any sequence of admits interleaved with removes, an admit adds
\* the smallest free index to the assigned slots and a remove takes away the
\* leaver's slot only, the slots of the other participants staying as they
\* are; so the assigned slots are the k smallest indices after an admit into
\* a room whose slots were, and after the removal of the highest slot of such
\* a room, and a hole left by another removal is what the next admit fills.
C29_AdmitFillsLowestHole ==
    [][ /\ \A s \in Sockets :
            /\ Admitted(s) =>
                 /\ HeldUserIndexes' = HeldUserIndexes \cup {Min(FreeUserIndexes)}
                 /\ Compact(HeldUserIndexes) => Compact(HeldUserIndexes')
                 /\ \A o \in DOMAIN users : users'[o].userIndex = users[o].userIndex
            /\ Disconnected(s) =>
                 /\ HeldUserIndexes' = HeldUserIndexes \ {users[s].userIndex}
                 /\ (/\ Compact(HeldUserIndexes)
                     /\ \A i \in HeldUserIndexes : i <= users[s].userIndex)
                      => Compact(HeldUserIndexes')
                 /\ \A o \in DOMAIN users' : users'[o].userIndex = users[o].userIndex
        /\ HeldUserIndexes' # HeldUserIndexes
             => \E s \in Sockets : Admitted(s) \/ Disconnected(s)
      ]_vars

\* A socket admitted later holds slot 1 while an earlier one holds slot 2 and
\* slot 0 is free: the hole at 1 was filled by an admit, the room then lost
\* its lowest slot and is not the compaction of its size.
C29_Witness ==
    /\ \E s, o \in DOMAIN users :
         o < s /\ users[s].userIndex = 1 /\ users[o].userIndex = 2
    /\ 0 \in FreeUserIndexes

\* The step is handleDisconnect.
DisconnectStep == socketState = "open" /\ socketState' = "closed"

\* What handleDisconnect is to empty: the mirrors of the roster and of the
\* presentations, the pending queues, the readiness, the consumers, their
\* transports and the client's own producers.
OwnedResourcesGone ==
    /\ userStates = <<>> /\ presentations = <<>>
    /\ pendingProducers = <<>> /\ pendingPresentations = <<>>
    /\ deviceReady = FALSE /\ deviceLoaded = FALSE
    /\ consumers = <<>> /\ consumerTransports = {} /\ ownProducers = <<>>

\* The render grid holds the local slot and nothing else.
GridIsLocalOnly ==
    /\ peersGrid = <<LocalElement>> /\ presGrid = <<>>
    /\ DOMAIN elements = {LocalElement}

\* The state before the first join, as far as a disconnect is to restore it.
Pristine ==
    /\ OwnedResourcesGone
    /\ isSharingScreen = FALSE
    /\ Idle /\ NoSwapVisuals
    /\ GridIsLocalOnly

\* C28: after the client processes a disconnect its state is the pristine
\* pre-join state: empty roster and presentation mirror, empty pending
\* queues, readiness false, no consumers, producers or transports, not in
\* screen-share mode, ArrangementEngine idle, and a render grid that holds
\* exactly the local slot, whatever was done before the disconnect.
C28_DisconnectRestoresPristine == [][DisconnectStep => Pristine']_vars

\* The step is the refusal (403) of a produce request of the client's
\* screen-share attempt.
ShareRefused ==
    /\ screenTracks # <<>>
    /\ resp'.op = "produce" /\ resp'.status = 403
    /\ screenTracks' = <<>>

\* The camera producers of socket s in the server's directory.
CameraProducersOf(ps, s) ==
    {p \in DOMAIN ps : ps[p].socketId = s /\ ps[p].source = "camera"}

\* The participant and its camera producers are what they were.
ParticipantKept ==
    /\ ME \in DOMAIN users' /\ users'[ME] = users[ME]
    /\ CameraProducersOf(producers', ME) = CameraProducersOf(producers, ME)
    /\ \A p \in CameraProducersOf(producers, ME) : producers'[p] = producers[p]
    /\ \A k \in {"camera-video", "camera-audio"} :
         /\ (k \in DOMAIN ownProducers') = (k \in DOMAIN ownProducers)
         /\ k \in DOMAIN ownProducers => ownProducers'[k] = ownProducers[k]

\* C30: when a screen-share attempt is refused for any of its tracks, the
\* participant stays admitted with its user slot and camera producers
\* unchanged, the client is not in screen-share mode afterwards, and the
\* server holds no presentation slot for that participant from the attempt.
C30_RefusedShareLeavesNothing ==
    [][ShareRefused =>
          /\ ParticipantKept
          /\ isSharingScreen' = FALSE
          /\ ScreenProducersOf(producers', ME) = {}
      ]_vars

\* C27: in every reachable client state the labels (scrN / prN) of the
\* render slots in the grid are pairwise distinct, under any interleaving of
\* joins, leaves, presentation starts and ends, in-flight consumptions and
\* swaps.
C27_LabelsDistinct ==
    \A a, b \in GridIds : elements[a].label = elements[b].label => a = b

\* The room-status messages among the emissions of the last handler.
RoomStatusSent == {emitted[i].msg : i \in Emissions(emitted, "room-status")}

\* C39: in every reachable server state the screen-share count of the
\* capacity checks and of room-status (the size of the screen-producer set)
\* is the number of directory producers with source screen, each of which
\* carries a presentation index, and is MaxScreenShares minus the number of
\* free presentation indices.
C39_ScreenShareCountAgrees ==
    /\ screenProducers = AllScreenProducers
    /\ \A p \in AllScreenProducers :
         producers[p].presentationIndex \in PresentationRange
    /\ getScreenShareCount
         = MAX_SCREEN_SHARES - Len(availablePresentationIndexes)
    /\ \A m \in RoomStatusSent : m.screenShareCount = getScreenShareCount

\* One of two screen shares has just been stopped: room-status reports the one
\* that is left, and one presentation index is free.
C39_Witness ==
    /\ getScreenShareCount = 1
    /\ Len(availablePresentationIndexes) = 1
    /\ Emissions(emitted, "presentation-ended") # {}
    /\ \E m \in RoomStatusSent : m.screenShareCount = 1

\* C35: in every reachable server state every transport and every producer
\* of the directory is owned by a currently admitted participant, and every
\* presentation slot that is not in the free pool is held by a screen
\* producer of an admitted participant, also when the owner disconnects while
\* its createTransport or createProducer request is suspended on the media
\* engine and the continuation resumes afterwards.
C35_ResourcesOwnedByAdmitted ==
    /\ \A t \in DOMAIN transports : transports[t].socketId \in DOMAIN users
    /\ \A p \in DOMAIN producers : producers[p].socketId \in DOMAIN users
    /\ \A i \in PresentationRange \ Range(availablePresentationIndexes) :
         \E p \in AllScreenProducers :
            /\ producers[p].presentationIndex = i
            /\ producers[p].socketId \in DOMAIN users

\* The step answers a request with a refusal before any await.
Rejected(status) == resp'.at = "request" /\ resp'.status = status

\* The step changes nothing in the server's state and emits nothing.
NoMutationNoBroadcast ==
    /\ UNCHANGED <<connState, roomVars, pending, nextTransportId, nextProducerId,
                   firstMsg>>
    /\ emitted' = <<>>

\* C40: a rejected control-plane request leaves the server state unchanged
\* and emits no broadcast; connectTransport, createProducer and consume naming
\* an unknown transport, and consume naming an unknown producer, are answered
\* NotFound (404); a consume the router cannot serve is answered Incompatible
\* (400); createTransport(send) for a connection that is not admitted while
\* the room is full is answered RoomFull (403), and an admitted participant is
\* never refused a transport.
C40_RejectedRequestNoMutation ==
    [][ /\ (\E st \in {400, 403, 404} : Rejected(st)) => NoMutationNoBroadcast
        /\ \A t \in TransportIds :
            /\ (ConnectTransport(t) /\ t \notin DOMAIN transports)
                 => resp' = Response("connect-transport", "request", 404)
            /\ ((\E k \in Kinds, src \in Sources : Produce(t, k, src))
                /\ t \notin DOMAIN transports)
                 => resp' = Response("produce", "request", 404)
            /\ \A p \in ProducerIds, c \in BOOLEAN :
                 Consume(t, p, c) =>
                    resp' = IF t \notin DOMAIN transports \/ p \notin DOMAIN producers
                            THEN Response("consume", "request", 404)
                            ELSE IF ~c THEN Response("consume", "request", 400)
                            ELSE NoError
        /\ \A s \in Sockets :
            CreateTransport(s, "send") =>
               IF s \notin DOMAIN users /\ isRoomFull
               THEN resp' = Response("create-transport", "request", 403)
               ELSE resp' = NoError
      ]_vars

\* A consume has just been refused for a producer that is gone, every
\* transport ever created being there, in a room with a screen share.
C40_Witness ==
    /\ resp = Response("consume", "request", 404)
    /\ DOMAIN transports # {}
    /\ Cardinality(DOMAIN transports) = nextTransportId - 1
    /\ nextProducerId > 1 + Cardinality(DOMAIN producers)
    /\ screenProducers # {}

\* The step is the catch block of call c, entered from the answer to its
\* consume request (NotFound, Incompatible).
ConsumeRefused(c) ==
    /\ c \in calls /\ c.pc = "consume" /\ c \notin calls'
    /\ lastHandler'.op = "catch" /\ lastHandler'.arg.n = c.n

\* The items processPendingProducers has yet to visit, in order, while it
\* awaits a call: the rest of the array of its loop, and the presentations
\* after the producers.
StillQueued ==
    LET arr == IF ~drain.live THEN drain.arr
               ELSE IF drain.phase = "producers" THEN pendingProducers
               ELSE pendingPresentations
        rest == SubSeq(arr, drain.idx + 1, Len(arr))
    IN IF drain.phase = "producers" THEN rest \o pendingPresentations ELSE rest

\* The calls of consumeProducer made in the step.
NewDispatches == SubSeq(dispatched', Len(dispatched) + 1, Len(dispatched'))

\* A refusal skips its resource only: the other calls in flight and what is
\* consumed stay as they are, and a drain goes on with the items it has yet
\* to visit, in order, up to the next call it awaits or to its end, where the
\* queues are emptied and the join goes on.
OnlyRefusedSkipped ==
    [][\A c \in calls : ConsumeRefused(c) =>
          /\ calls \ {c} \subseteq calls'
          /\ consumers' = consumers /\ presentations' = presentations
          /\ elements' = elements
          /\ IF ~c.drain
             THEN /\ calls' = calls \ {c}
                  /\ UNCHANGED <<drain, dispatched, pendingProducers,
                                 pendingPresentations>>
             ELSE /\ Len(NewDispatches) <= Len(StillQueued)
                  /\ \A i \in 1..Len(NewDispatches) :
                       /\ NewDispatches[i].id = StillQueued[i]
                       /\ NewDispatches[i].via = "drain"
                  /\ IF drain'.phase = "none"
                     THEN /\ Len(NewDispatches) = Len(StillQueued)
                          /\ calls' = calls \ {c}
                          /\ pendingProducers' = <<>>
                          /\ pendingPresentations' = <<>>
                          /\ startPc' = "joined"
                     ELSE /\ NewDispatches # <<>>
                          /\ \E d \in calls' \ calls :
                               /\ d.drain /\ d.pc = "transport"
                               /\ d.id = NewDispatches[Len(NewDispatches)].id
                               /\ calls' = (calls \ {c}) \cup {d}
      ]_vars

\* C31: when the consumption of one resource is refused (NotFound or
\* Incompatible), as a live event or as an item of the drain, only that
\* resource is skipped, every other item the drain has yet to visit is still
\* dispatched, and the drain runs to completion.
C31_RefusalSkipsOneResource ==
    /\ OnlyRefusedSkipped
    /\ (drain.phase # "none") ~> (drain.phase = "none")

\* The consume request of the first item of a drain was refused, its receive
\* transport being there, and the drain awaits its call for a later item.
C31_Witness ==
    /\ lastHandler.op = "catch"
    /\ lastHandler.arg.n \in consumerTransports
    /\ drain.phase # "none"
    /\ \E d \in calls : d.drain /\ d.n > lastHandler.arg.n /\ d.pc = "transport"

\* C36: once the client has processed presentation-ended for producer P or
\* user-left for the owner of P, it never afterwards holds a render slot, a
\* consumer entry or a presentation record for P, nor, after user-left, a
\* render slot or a roster entry for the owner, even when a consume of P was
\* in flight when the removal was processed and completes afterwards.
C36_RemovedStaysRemoved ==
    \A p \in closedProducers :
       /\ p \notin DOMAIN consumers
       /\ p \notin DOMAIN presentations
       /\ PresentationElement(p) \notin DOMAIN elements
       /\ ~IsScreen(p) =>
            /\ UserElement(Owner(p)) \notin DOMAIN elements
            /\ Owner(p) \notin DOMAIN userStates

\* C37: for any producer id, calls of consumeProducer that overlap create at
\* most one receive transport and send at most one consume request: no two
\* suspended calls for one id are both past createRecvTransport.
C37_OneConsumptionPerId ==
    \A c, d \in calls :
       (c.id = d.id /\ c.pc # "transport" /\ d.pc # "transport") => c = d

\* The kind of track the client's produce request in flight was made for:
\* produceScreenTracks is at work while it has tracks left, else the request
\* is one of produceCameraTracks.
TrackOrigin == IF screenTracks # <<>> THEN "screen" ELSE "camera"

\* C38: every producer the server registers for the client carries the source
\* of the track it was created from: screen for a screen-capture track,
\* camera for a camera or microphone track, also when the share button is
\* pressed again while the first press awaits the display capture.
C38_SourceMatchesTrack ==
    [][\A id \in (DOMAIN producers') \ (DOMAIN producers) :
          producers'[id].socketId = ME => producers'[id].source = TrackOrigin
      ]_vars

\* The listener of a message of the type is the step.
Processing(type) ==
    /\ inbox # <<>> /\ inbox' = Tail(inbox)
    /\ Head(inbox).type = type

\* C33: an update, leave or toggle delta is applied to the mirror as soon as
\* it is processed, ready or not, render slot or not: after a toggle delta
\* for a participant of the mirror, the mirror's flag of that kind is the
\* value of the delta; after an update, the entry is the delta's; after a
\* leave, the participant is not in the mirror.
C33_DeltaAppliedAtOnce ==
    [][LET m == Head(inbox) IN
       /\ (Processing("user-updated") /\ m.socketId \in DOMAIN userStates)
            => userStates'[m.socketId] =
                  UserState(m.name, m.userIndex, m.videoEnabled, m.audioEnabled)
       /\ Processing("user-left") => m.socketId \notin DOMAIN userStates'
       /\ (Processing("user-video-toggled") /\ m.socketId \in DOMAIN userStates)
            => userStates'[m.socketId].videoEnabled = m.enabled
       /\ (Processing("user-audio-toggled") /\ m.socketId \in DOMAIN userStates)
            => userStates'[m.socketId].audioEnabled = m.enabled
      ]_vars

\* Every message sent to the client is handled and no request is in flight.
Quiescent == connState[ME] = "connected" /\ inbox = <<>> /\ pending = {}

\* C32: once every message sent was handled and no request is in flight, the
\* client's roster mirror is the server's roster without the client itself:
\* the same participants, with the same names, user slots and video and
\* audio flags.
C32_MirrorEqualsRoster ==
    Quiescent => userStates = [s \in (DOMAIN users) \ {ME} |-> users[s]]

\* The join attempt was aborted because the local media was refused.
Aborted == lastHandler.op = "getUserMedia-denied"

\* C34: when local media is refused during a join attempt, the attempt is
\* aborted: the signaling connection is closed, the client is not started,
\* its mirror and its pending queues are empty, it holds no local producer,
\* and once the server has processed the disconnect the connection is no
\* longer a participant and its user slot is back in the pool.
C34_MediaDeniedAbortsJoin ==
    Aborted =>
       /\ socketState = "closed"
       /\ startPc = "idle" /\ ~deviceReady
       /\ userStates = <<>> /\ presentations = <<>>
       /\ pendingProducers = <<>> /\ pendingPresentations = <<>>
       /\ ownProducers = <<>>
       /\ connState[ME] = "disconnected" =>
            /\ ME \notin DOMAIN users
            /\ Range(availableIndexes)
                  \cup {users[s].userIndex : s \in DOMAIN users} = UserRange

\* The media was refused after the snapshot had filled the mirror and the
\* queues, the server processed the disconnect, and others are in the room.
C34_Witness ==
    /\ Aborted
    /\ received >= 1 /\ delivered # <<>>
    /\ connState[ME] = "disconnected"
    /\ users # <<>>
====
